---- MODULE Spec2Model ----
(***************************************************************************)
(* Job orchestration of sonic-siphon: the job registry (downloads, guarded *)
(* by mu), the HTTP handlers that create and cancel jobs, and downloadTask *)
(* with the external processes (yt-dlp, ffmpeg) it runs.                   *)
(*                                                                         *)
(* A step of the model is one critical section of mu, one check of the     *)
(* job's context, or one start / exit of an external process.  Purely      *)
(* local computation is folded into the step that follows it.              *)
(*                                                                         *)
(* Spec is the orchestration of the submitted jobs.  The parts of the      *)
(* program that the jobs' state does not show are specifications of their  *)
(* own over further variables: the filter chain of adjustAudioSpeed        *)
(* (TempoSpec), its files (ApplySpec), the registry under concurrent       *)
(* requests (RegistrySpec), listJobsHandler (ListSpec), moveFilesHandler   *)
(* (MoveSpec), statusHandler beside the jobs (StatusSpec), two jobs side   *)
(* by side (PairSpec) and two tasks in the shared TEMP_DIR (WorkSpec).     *)
(***************************************************************************)
EXTENDS Integers, Sequences, FiniteSets, TLC

(* ------------------------------ bounds -------------------------------- *)

\* Number of jobs the clients submit.
MaxJobs == 1
\* Most files a playlist download leaves in the working directory.
MaxFiles == 2
\* A tool's diagnostic output is up to ExcerptLimit + MaxExtra bytes long.
MaxExtra == 1
\* Leading/trailing white space of a tool's stderr, in bytes.
MaxWs == 1
\* Doublings of a value of magnitude 1.0 after which it is infinite
\* (the float64 range, shortened).
MaxDoublings == 3
\* The filter chain is computed for speeds up to MaxMult, ...
MaxMult == 10
\* ... PlanGrid of them, evenly spaced.
PlanGrid == 64
\* Requests to POST /download that are in progress at the same time.
MaxClients == 2
\* Jobs of the registry that GET /jobs lists.
MaxEntries == 3
\* File names in one request to POST /move.
MaxReq == 2

(* ------------------------- program constants -------------------------- *)

\* The float 1.0; speeds are fixed-point numbers in units of 1/One, an eighth
\* of the last decimal that "%.4f" prints.
One == 80000
\* fmt.Sprintf("atempo=%.4f", ...): the decimals of a printed stage.
Decimals == 4
\* stderr.String()[:min(500, stderr.Len())]
ExcerptLimit == 500

JobIds == 1..MaxJobs

NoJob == [ID |-> 0]

Active == {"queued", "downloading", "processing"}
Terminal == {"completed", "error", "cancelled"}

\* URL values of a request: empty, a single video, a playlist.
URLs == {"", "watch?v=x", "playlist?list=p"}

\* Speed values of a request body; 0 is also what an omitted field decodes to.
Speeds == {0, One, (7 * One) \div 4, -One}

\* float64 infinity, and the largest finite magnitude of the model.
FloatMax == One * (2 ^ MaxDoublings)
NegInf == -(FloatMax + 1)

\* Lengths of the diagnostic output an external tool may produce.
OutLens == {0, ExcerptLimit, ExcerptLimit + MaxExtra}

Min(a, b) == IF a < b THEN a ELSE b

\* A message: a format string and the values it is filled with.  diag is the
\* number of bytes of tool output the message carries.
Msg(t, a, b, d) == [text |-> t, a |-> a, b |-> b, diag |-> d]

VARIABLES
    downloads,  \* the registry: id -> *DownloadStatus, or NoJob
    ctxDone,    \* id -> the job's context has been cancelled
    pc,         \* id -> position of the job's downloadTask goroutine
    run,        \* id -> state of the external command the task is running
    cmdProc,    \* id -> Process of the Cmd stored in job.cmd
    loc,        \* id -> locals of downloadTask / adjustAudioSpeed
    hist,       \* id -> the distinct values Status has taken, in order
    cnt,        \* id -> counts of signals sent and processes launched
    early,      \* id -> a cancel succeeded before any process was launched
    resp,       \* the last HTTP response sent (id: its download_id, if any)
    plan,       \* adjustAudioSpeed: speed, remaining, filters of one call
    ap,         \* adjustAudioSpeed: the call in progress and its ffmpeg process
    dir,        \* TEMP_DIR: file name -> content
    out,        \* OUTPUT_DIR: file name -> content
    sub,        \* request -> position and locals of its downloadHandler
    clock,      \* the wall clock time.Now() reads
    listed,     \* the body of the last response of listJobsHandler
    get,        \* statusHandler: position and locals of the request
    mv,         \* moveFilesHandler: position and locals of the request
    wd          \* jobs sharing TEMP_DIR: their locals, and who wrote each file

taskVars == <<downloads, ctxDone, pc, run, cmdProc, loc, hist, cnt, early, resp>>
planVars == <<plan>>
applyVars == <<ap>>
fsVars == <<dir, out>>
regVars == <<sub, clock, listed, get>>
moveVars == <<mv>>
workVars == <<wd>>

\* What no step of a job's task or of the cancel handler touches.
others == <<planVars, applyVars, fsVars, regVars, moveVars, workVars>>

vars == <<taskVars, others>>

\* The value of a variable group in a specification that does not use it.
Off == [pc |-> "off"]
PlanOff == plan = Off
ApplyOff == ap = Off
FsOff == dir = Off /\ out = Off
RegOff == sub = Off /\ clock = 0 /\ listed = Off /\ get = Off
MoveOff == mv = Off
WorkOff == wd = Off

exists(id) == downloads[id] # NoJob

Status(id) == downloads[id].Status

(* --------------------------- construction ----------------------------- *)

\* No job has been submitted; ids are the identifiers uuid.New() may give.
TaskInitOver(ids) ==
    /\ downloads = [id \in ids |-> NoJob]
    /\ ctxDone = [id \in ids |-> FALSE]
    /\ pc = [id \in ids |-> "none"]
    /\ run = [id \in ids |-> "none"]
    /\ cmdProc = [id \in ids |-> "nil"]
    /\ loc = [id \in ids |-> [remaining |-> 0, i |-> 0, n |-> 0, successCount |-> 0]]
    /\ hist = [id \in ids |-> <<>>]
    /\ cnt = [id \in ids |-> [signals |-> 0, kills |-> 0, fetches |-> 0, transforms |-> 0]]
    /\ early = [id \in ids |-> FALSE]
    /\ resp = [op |-> "none", id |-> 0, code |-> 0]

TaskInit == TaskInitOver(JobIds)

Init == TaskInit /\ PlanOff /\ ApplyOff /\ FsOff /\ RegOff /\ MoveOff /\ WorkOff

(* ----------------------------- helpers -------------------------------- *)

\* The url tests of downloadTask (strings.Contains(url, "list=") || ...).
isPlaylist(url) == url = "playlist?list=p"

\* hist with status s recorded: a value is recorded when Status changes.
Push(h, s) == IF Len(h) > 0 /\ h[Len(h)] = s THEN h ELSE Append(h, s)

\* The mutant of SetStatus: one record shared by every entry of the registry.
SetStatus_Shared(id, s, m) ==
    /\ downloads' = [j \in DOMAIN downloads |->
                        [downloads[j] EXCEPT !.Status = s, !.Message = m]]
    /\ hist' = [j \in DOMAIN hist |-> Push(hist[j], s)]

\* job.Status = s; job.Message = m, inside one critical section.
SetStatus(id, s, m) ==
    /\ downloads' = [downloads EXCEPT ![id].Status = s, ![id].Message = m]
    /\ hist' = [hist EXCEPT ![id] = Push(@, s)]

\* The mutant of SetMessage: the entry is replaced by a new record that
\* carries the message.
SetMessage_NewRecord(id, m) ==
    /\ downloads' = [downloads EXCEPT ![id].Message = m, ![id].URL = "",
                                      ![id].CreatedAt = 0]
    /\ UNCHANGED hist

\* job.Message = m
SetMessage(id, m) ==
    /\ downloads' = [downloads EXCEPT ![id].Message = m]
    /\ UNCHANGED hist

\* An identifier made from the number of jobs there are.
FreshID_FromCount(ids, taken) ==
    CHOOSE id \in ids : id = Cardinality({j \in ids : downloads[j] # NoJob}) + 1

\* uuid.New(): an identifier of ids that was never given before (taken).
FreshID(ids, taken) == CHOOSE id \in ids \ taken : \A j \in ids \ taken : id <= j

NewID == FreshID(JobIds, {id \in JobIds : exists(id)})

(* ------------------------------ handlers ------------------------------ *)

\* POST /download: a request without a URL is answered 400 before anything
\* is created (the guard); otherwise the handler registers the job and starts
\* its goroutine.
downloadHandler(url, speed) ==
    /\ url # ""
    /\ \E id \in JobIds : ~exists(id)
    /\ LET id == NewID
           sp == IF speed = 0 THEN One ELSE speed
       IN  /\ downloads' = [downloads EXCEPT ![id] =
                  [ID |-> id, Status |-> "queued",
                   Message |-> Msg("Starting download...", 0, 0, 0),
                   Progress |-> "0%", URL |-> url, Speed |-> sp,
                   CreatedAt |-> Cardinality({j \in JobIds : exists(j)}) + 1,
                   cancel |-> TRUE, cmd |-> "nil"]]
           /\ hist' = [hist EXCEPT ![id] = <<"queued">>]
           /\ pc' = [pc EXCEPT ![id] = "start"]
           /\ resp' = [op |-> "download", id |-> id, code |-> 200]
    /\ UNCHANGED <<ctxDone, run, cmdProc, loc, cnt, early, others>>

\* The values a read of job.cmd.Process under mu may give.  cmd.Start()
\* writes the field in the task's goroutine without holding mu, so until the
\* task next takes mu the handler's read races with that write and may still
\* give nil.
ProcessRead(id) ==
    IF pc[id] \in {"pl_wait", "retry_wait"} /\ cmdProc[id] # "nil"
    THEN {"nil", cmdProc[id]}
    ELSE {cmdProc[id]}

\* cancelJobHandler without its test of job.Status.
cancelJobHandler_NoGuard(id, seen) ==
    IF ~exists(id) THEN
        /\ resp' = [op |-> "cancel", id |-> 0, code |-> 404]
        /\ UNCHANGED <<downloads, ctxDone, pc, run, cmdProc, loc, hist, cnt, early, others>>
    ELSE
        LET kill == downloads[id].cmd # "nil" /\ seen # "nil"
            hit == kill /\ seen = "running"
        IN  /\ ctxDone' = [ctxDone EXCEPT ![id] = downloads[id].cancel \/ @]
            /\ cnt' = [cnt EXCEPT ![id].signals = @ + (IF downloads[id].cancel THEN 1 ELSE 0),
                                  ![id].kills = @ + (IF kill THEN 1 ELSE 0)]
            /\ cmdProc' = [cmdProc EXCEPT ![id] = IF hit THEN "exited" ELSE @]
            /\ run' = [run EXCEPT ![id] = IF hit THEN "killed" ELSE @]
            /\ early' = [early EXCEPT ![id] = @ \/ (cnt[id].fetches + cnt[id].transforms = 0)]
            /\ SetStatus(id, "cancelled", Msg("Job cancelled by user", 0, 0, 0))
            /\ resp' = [op |-> "cancel", id |-> 0, code |-> 200]
            /\ UNCHANGED <<pc, loc, others>>

\* cancelJobHandler that cancels the context and leaves the process alone.
cancelJobHandler_NoKill(id, seen) ==
    IF ~exists(id) THEN
        /\ resp' = [op |-> "cancel", id |-> 0, code |-> 404]
        /\ UNCHANGED <<downloads, ctxDone, pc, run, cmdProc, loc, hist, cnt, early, others>>
    ELSE IF Status(id) \notin Active THEN
        /\ resp' = [op |-> "cancel", id |-> 0, code |-> 400]
        /\ UNCHANGED <<downloads, ctxDone, pc, run, cmdProc, loc, hist, cnt, early, others>>
    ELSE
        /\ ctxDone' = [ctxDone EXCEPT ![id] = downloads[id].cancel \/ @]
        /\ cnt' = [cnt EXCEPT ![id].signals = @ + (IF downloads[id].cancel THEN 1 ELSE 0)]
        /\ early' = [early EXCEPT ![id] = @ \/ (cnt[id].fetches + cnt[id].transforms = 0)]
        /\ SetStatus(id, "cancelled", Msg("Job cancelled by user", 0, 0, 0))
        /\ resp' = [op |-> "cancel", id |-> 0, code |-> 200]
        /\ UNCHANGED <<pc, loc, run, cmdProc, others>>

\* cancelJobHandler without the call of job.cancel(): it only kills the
\* process of the stored command.
cancelJobHandler_NoCancel(id, seen) ==
    IF ~exists(id) THEN
        /\ resp' = [op |-> "cancel", id |-> 0, code |-> 404]
        /\ UNCHANGED <<downloads, ctxDone, pc, run, cmdProc, loc, hist, cnt, early, others>>
    ELSE IF Status(id) \notin Active THEN
        /\ resp' = [op |-> "cancel", id |-> 0, code |-> 400]
        /\ UNCHANGED <<downloads, ctxDone, pc, run, cmdProc, loc, hist, cnt, early, others>>
    ELSE
        LET kill == downloads[id].cmd # "nil" /\ seen # "nil"
            hit == kill /\ seen = "running"
        IN  /\ cnt' = [cnt EXCEPT ![id].kills = @ + (IF kill THEN 1 ELSE 0)]
            /\ cmdProc' = [cmdProc EXCEPT ![id] = IF hit THEN "exited" ELSE @]
            /\ run' = [run EXCEPT ![id] = IF hit THEN "killed" ELSE @]
            /\ early' = [early EXCEPT ![id] = @ \/ (cnt[id].fetches + cnt[id].transforms = 0)]
            /\ SetStatus(id, "cancelled", Msg("Job cancelled by user", 0, 0, 0))
            /\ resp' = [op |-> "cancel", id |-> 0, code |-> 200]
            /\ UNCHANGED <<ctxDone, pc, loc, others>>

\* DELETE /jobs/:id, the whole handler under mu.Lock().  seen is what the
\* handler reads in job.cmd.Process.
cancelJobHandler(id, seen) ==
    IF ~exists(id) THEN
        /\ resp' = [op |-> "cancel", id |-> 0, code |-> 404]
        /\ UNCHANGED <<downloads, ctxDone, pc, run, cmdProc, loc, hist, cnt, early, others>>
    ELSE IF Status(id) \notin Active THEN
        /\ resp' = [op |-> "cancel", id |-> 0, code |-> 400]
        /\ UNCHANGED <<downloads, ctxDone, pc, run, cmdProc, loc, hist, cnt, early, others>>
    ELSE
        LET kill == downloads[id].cmd # "nil" /\ seen # "nil"
            hit == kill /\ seen = "running"
        IN  /\ ctxDone' = [ctxDone EXCEPT ![id] = downloads[id].cancel \/ @]
            /\ cnt' = [cnt EXCEPT ![id].signals = @ + (IF downloads[id].cancel THEN 1 ELSE 0),
                                  ![id].kills = @ + (IF kill THEN 1 ELSE 0)]
            /\ cmdProc' = [cmdProc EXCEPT ![id] = IF hit THEN "exited" ELSE @]
            /\ run' = [run EXCEPT ![id] = IF hit THEN "killed" ELSE @]
            /\ early' = [early EXCEPT ![id] = @ \/ (cnt[id].fetches + cnt[id].transforms = 0)]
            /\ SetStatus(id, "cancelled", Msg("Job cancelled by user", 0, 0, 0))
            /\ resp' = [op |-> "cancel", id |-> 0, code |-> 200]
            /\ UNCHANGED <<pc, loc, others>>

(* ------------------------- external processes ------------------------- *)

Job(id) == downloads[id]

\* cmd.Start() that does not look at ctx.
StartCmd_IgnoreCtx(id, tool, stored) ==
    /\ run' = [run EXCEPT ![id] = "running"]
    /\ cmdProc' = [cmdProc EXCEPT ![id] = IF stored THEN "running" ELSE @]
    /\ cnt' = [cnt EXCEPT ![id].fetches = @ + (IF tool = "yt-dlp" THEN 1 ELSE 0),
                          ![id].transforms = @ + (IF tool = "ffmpeg" THEN 1 ELSE 0)]

\* cmd.Start() of a command made by exec.CommandContext(ctx, ...): it starts
\* no process once ctx is done.  stored: the command is the one in job.cmd.
StartCmd(id, tool, stored) ==
    IF ctxDone[id] THEN
        /\ run' = [run EXCEPT ![id] = "ctxerr"]
        /\ UNCHANGED <<cmdProc, cnt>>
    ELSE
        /\ run' = [run EXCEPT ![id] = "running"]
        /\ cmdProc' = [cmdProc EXCEPT ![id] = IF stored THEN "running" ELSE @]
        /\ cnt' = [cnt EXCEPT ![id].fetches = @ + (IF tool = "yt-dlp" THEN 1 ELSE 0),
                              ![id].transforms = @ + (IF tool = "ffmpeg" THEN 1 ELSE 0)]

\* The external process of job id exits by itself, with status 0 or not.
ProcExit(id) ==
    /\ run[id] = "running"
    /\ \E st \in {"ok", "fail"} : run' = [run EXCEPT ![id] = st]
    /\ cmdProc' = [cmdProc EXCEPT ![id] = IF @ = "running" THEN "exited" ELSE @]
    /\ UNCHANGED <<downloads, ctxDone, pc, loc, hist, cnt, early, resp, others>>

\* The watcher of exec.CommandContext kills the process once ctx is done.
CtxKill(id) ==
    /\ run[id] = "running"
    /\ ctxDone[id]
    /\ run' = [run EXCEPT ![id] = "killed"]
    /\ cmdProc' = [cmdProc EXCEPT ![id] = IF @ = "running" THEN "exited" ELSE @]
    /\ UNCHANGED <<downloads, ctxDone, pc, loc, hist, cnt, early, resp, others>>

\* cmd.Run() / cmd.CombinedOutput() has returned.
Returned(id) == run[id] \in {"ok", "fail", "killed", "ctxerr"}

Goto(id, l) == pc' = [pc EXCEPT ![id] = l]

\* A test of the error that takes every failure for a cancellation.
ctxCanceled_Always(id) == TRUE

\* ctx.Err() == context.Canceled
ctxCanceled(id) == ctxDone[id]

\* A speed test that sends every file through the Audio Post-Processor.
speedAdjust_Always(speed) == TRUE

\* speed != 1.0: the file needs the Audio Post-Processor.
speedAdjust(speed) == speed # One

(* --------------------------- downloadTask ----------------------------- *)

\* select { case <-ctx.Done(): ...; default: }
Task_Start(id) ==
    /\ pc[id] = "start"
    /\ IF ctxDone[id]
       THEN /\ SetStatus(id, "cancelled", Msg("Job cancelled before starting", 0, 0, 0))
            /\ Goto(id, "done")
       ELSE /\ Goto(id, "set_downloading")
            /\ UNCHANGED <<downloads, hist>>
    /\ UNCHANGED <<ctxDone, run, cmdProc, loc, cnt, early, resp, others>>

\* A task that starts the download without announcing it.
Task_SetDownloading_Skip(id) ==
    /\ pc[id] = "set_downloading"
    /\ Goto(id, "set_message")
    /\ UNCHANGED <<downloads, hist, ctxDone, run, cmdProc, loc, cnt, early, resp, others>>

Task_SetDownloading(id) ==
    /\ pc[id] = "set_downloading"
    /\ SetStatus(id, "downloading", Msg("Starting download...", 0, 0, 0))
    /\ Goto(id, "set_message")
    /\ UNCHANGED <<ctxDone, run, cmdProc, loc, cnt, early, resp, others>>

Task_SetMessage(id) ==
    /\ pc[id] = "set_message"
    /\ IF isPlaylist(Job(id).URL)
       THEN /\ SetMessage(id, Msg("Downloading playlist...", 0, 0, 0))
            /\ Goto(id, "pl_store_cmd")
       ELSE /\ SetMessage(id, Msg("Downloading video...", 0, 0, 0))
            /\ Goto(id, "dsv_start")
    /\ UNCHANGED <<ctxDone, run, cmdProc, loc, cnt, early, resp, others>>

\* ---- playlist workflow

\* downloads[downloadID].cmd = cmd
Task_PlStoreCmd(id) ==
    /\ pc[id] = "pl_store_cmd"
    /\ downloads' = [downloads EXCEPT ![id].cmd = "playlist"]
    /\ cmdProc' = [cmdProc EXCEPT ![id] = "nil"]
    /\ Goto(id, "pl_start")
    /\ UNCHANGED <<ctxDone, run, loc, hist, cnt, early, resp, others>>

Task_PlStart(id) ==
    /\ pc[id] = "pl_start"
    /\ StartCmd(id, "yt-dlp", TRUE)
    /\ Goto(id, "pl_wait")
    /\ UNCHANGED <<downloads, ctxDone, loc, hist, early, resp, others>>

\* err := cmd.Run() has returned: the error branch, or the directory diff.
Task_PlAfterRun(id) ==
    /\ pc[id] = "pl_wait"
    /\ Returned(id)
    /\ run' = [run EXCEPT ![id] = "none"]
    /\ IF run[id] # "ok" THEN
          /\ IF ctxCanceled(id)
             THEN SetStatus(id, "cancelled", Msg("Download cancelled", 0, 0, 0))
             ELSE \E len \in OutLens :
                    SetStatus(id, "error",
                        Msg("Playlist download error: %v", 0, 0, Min(ExcerptLimit, len)))
          /\ Goto(id, "done")
          /\ UNCHANGED loc
       ELSE
          \E n \in 0..MaxFiles :
             /\ loc' = [loc EXCEPT ![id].n = n, ![id].i = 0, ![id].successCount = 0]
             /\ IF speedAdjust(Job(id).Speed) /\ n > 0
                THEN Goto(id, "pl_set_processing")
                ELSE Goto(id, "pl_completed")
             /\ UNCHANGED <<downloads, hist>>
    /\ UNCHANGED <<ctxDone, cmdProc, cnt, early, resp, others>>

Task_PlSetProcessing(id) ==
    /\ pc[id] = "pl_set_processing"
    /\ SetStatus(id, "processing",
           Msg("Applying %.1fx speed to %d files...", Job(id).Speed, loc[id].n, 0))
    /\ Goto(id, "pl_loop")
    /\ UNCHANGED <<ctxDone, run, cmdProc, loc, cnt, early, resp, others>>

\* The mutant of Task_PlLoop: the loop without its select on ctx.Done().
Task_PlLoop_NoCheck(id) ==
    /\ pc[id] = "pl_loop"
    /\ IF loc[id].i >= loc[id].n THEN Goto(id, "pl_completed")
       ELSE Goto(id, "pl_message")
    /\ UNCHANGED <<downloads, hist, ctxDone, run, cmdProc, loc, cnt, early, resp, others>>

\* for i, filename := range newFiles { select { case <-ctx.Done(): ... } }
Task_PlLoop(id) ==
    /\ pc[id] = "pl_loop"
    /\ IF loc[id].i >= loc[id].n THEN
          /\ Goto(id, "pl_completed")
          /\ UNCHANGED <<downloads, hist>>
       ELSE IF ctxDone[id] THEN
          /\ SetStatus(id, "cancelled",
                 Msg("Cancelled after processing %d/%d files", loc[id].i, loc[id].n, 0))
          /\ Goto(id, "done")
       ELSE
          /\ Goto(id, "pl_message")
          /\ UNCHANGED <<downloads, hist>>
    /\ UNCHANGED <<ctxDone, run, cmdProc, loc, cnt, early, resp, others>>

Task_PlMessage(id) ==
    /\ pc[id] = "pl_message"
    /\ SetMessage(id, Msg("Processing %d/%d: %s", loc[id].i + 1, loc[id].n, 0))
    /\ loc' = [loc EXCEPT ![id].remaining = Job(id).Speed]
    /\ Goto(id, "tempo")
    /\ UNCHANGED <<ctxDone, run, cmdProc, cnt, early, resp, others>>

Task_PlCompleted(id) ==
    /\ pc[id] = "pl_completed"
    /\ SetStatus(id, "completed",
           IF speedAdjust(Job(id).Speed)
           THEN Msg("Downloaded %d files with %.1fx speed", loc[id].n, Job(id).Speed, 0)
           ELSE Msg("Downloaded %d files", loc[id].n, 0, 0))
    /\ Goto(id, "done")
    /\ UNCHANGED <<ctxDone, run, cmdProc, loc, cnt, early, resp, others>>

\* ---- single-item workflow

\* downloadSingleVideo(ctx, "", TEMP_DIR): cmd.CombinedOutput() starts yt-dlp.
DSV_Start(id) ==
    /\ pc[id] = "dsv_start"
    /\ StartCmd(id, "yt-dlp", FALSE)
    /\ Goto(id, "dsv_wait")
    /\ UNCHANGED <<downloads, ctxDone, loc, hist, early, resp, others>>

\* downloadSingleVideo returns: an error, or the path of the file (printed
\* by the tool, or the newest MP3 of the directory; none found is an error).
DSV_After(id) ==
    /\ pc[id] = "dsv_wait"
    /\ Returned(id)
    /\ run' = [run EXCEPT ![id] = "none"]
    /\ IF run[id] # "ok"
       THEN Goto(id, "retry_store_cmd")
       ELSE \E found \in BOOLEAN :
              IF ~found THEN Goto(id, "retry_store_cmd")
              ELSE IF speedAdjust(Job(id).Speed) THEN Goto(id, "set_processing")
              ELSE Goto(id, "completed")
    /\ UNCHANGED <<downloads, ctxDone, cmdProc, loc, hist, cnt, early, resp, others>>

Retry_StoreCmd(id) ==
    /\ pc[id] = "retry_store_cmd"
    /\ downloads' = [downloads EXCEPT ![id].cmd = "retry"]
    /\ cmdProc' = [cmdProc EXCEPT ![id] = "nil"]
    /\ Goto(id, "retry_start")
    /\ UNCHANGED <<ctxDone, run, loc, hist, cnt, early, resp, others>>

Retry_Start(id) ==
    /\ pc[id] = "retry_start"
    /\ StartCmd(id, "yt-dlp", TRUE)
    /\ Goto(id, "retry_wait")
    /\ UNCHANGED <<downloads, ctxDone, loc, hist, early, resp, others>>

\* strings.TrimSpace(stderr.String()): stderr of len bytes, ws of them
\* leading or trailing white space.
TrimSpace(len, ws) == len - ws

\* The mutant of Retry_After: a retry that failed is run again.
Retry_After_Again(id) ==
    /\ pc[id] = "retry_wait"
    /\ Returned(id)
    /\ run' = [run EXCEPT ![id] = "none"]
    /\ IF run[id] # "ok" THEN Goto(id, "retry_start")
       ELSE IF speedAdjust(Job(id).Speed) THEN Goto(id, "set_processing")
       ELSE Goto(id, "completed")
    /\ UNCHANGED <<downloads, hist, ctxDone, cmdProc, loc, cnt, early, resp, others>>

\* err = cmd.Run() of the retry has returned.
Retry_After(id) ==
    /\ pc[id] = "retry_wait"
    /\ Returned(id)
    /\ run' = [run EXCEPT ![id] = "none"]
    /\ IF run[id] # "ok" THEN
          /\ IF ctxCanceled(id)
             THEN SetStatus(id, "cancelled", Msg("Download cancelled", 0, 0, 0))
             ELSE \E len \in OutLens : \E ws \in 0..Min(MaxWs, len) :
                    SetStatus(id, "error", Msg("Error: %v", 0, 0, TrimSpace(len, ws)))
          /\ Goto(id, "done")
       ELSE
          \E files \in BOOLEAN :
             IF ~files THEN
                /\ SetStatus(id, "error", Msg("No MP3 file was created", 0, 0, 0))
                /\ Goto(id, "done")
             ELSE
                /\ IF speedAdjust(Job(id).Speed) THEN Goto(id, "set_processing")
                   ELSE Goto(id, "completed")
                /\ UNCHANGED <<downloads, hist>>
    /\ UNCHANGED <<ctxDone, cmdProc, loc, cnt, early, resp, others>>

Task_SetProcessing(id) ==
    /\ pc[id] = "set_processing"
    /\ SetStatus(id, "processing",
           Msg("Applying %.1fx speed adjustment...", Job(id).Speed, 0, 0))
    /\ loc' = [loc EXCEPT ![id].remaining = Job(id).Speed]
    /\ Goto(id, "tempo")
    /\ UNCHANGED <<ctxDone, run, cmdProc, cnt, early, resp, others>>

Task_Completed(id) ==
    /\ pc[id] = "completed"
    /\ SetStatus(id, "completed",
           IF speedAdjust(Job(id).Speed)
           THEN Msg("Download completed with %.1fx speed", Job(id).Speed, 0, 0)
           ELSE Msg("Download completed", 0, 0, 0))
    /\ Goto(id, "done")
    /\ UNCHANGED <<ctxDone, run, cmdProc, loc, cnt, early, resp, others>>

(* -------------------------- adjustAudioSpeed --------------------------- *)

\* remaining /= 2.0
Halve(r) == r \div 2

\* remaining /= 0.5, in float64: a value beyond the range is infinite.
Double(r) == IF r = NegInf \/ 2 * r < -FloatMax THEN NegInf ELSE 2 * r

\* The filter chain: one turn of `for remaining > 2.0` or of
\* `for remaining < 0.5` per step, then on to the ffmpeg command.
Tempo(id) ==
    /\ pc[id] = "tempo"
    /\ LET speed == Job(id).Speed
           r == loc[id].remaining
       IN  IF 2 * speed >= One /\ speed <= 2 * One THEN
              /\ Goto(id, "ff_start")
              /\ UNCHANGED loc
           ELSE IF speed > 2 * One THEN
              IF r > 2 * One
              THEN /\ loc' = [loc EXCEPT ![id].remaining = Halve(r)]
                   /\ UNCHANGED pc
              ELSE /\ Goto(id, "ff_start")
                   /\ UNCHANGED loc
           ELSE
              IF 2 * r < One
              THEN /\ loc' = [loc EXCEPT ![id].remaining = Double(r)]
                   /\ UNCHANGED pc
              ELSE /\ Goto(id, "ff_start")
                   /\ UNCHANGED loc
    /\ UNCHANGED <<downloads, ctxDone, run, cmdProc, hist, cnt, early, resp, others>>

\* cmd.CombinedOutput() of the ffmpeg command starts the process.
FF_Start(id) ==
    /\ pc[id] = "ff_start"
    /\ StartCmd(id, "ffmpeg", FALSE)
    /\ Goto(id, "ff_wait")
    /\ UNCHANGED <<downloads, ctxDone, loc, hist, early, resp, others>>

\* A playlist loop that gives up at the first file whose transform fails.
FF_After_Abort(id) ==
    /\ pc[id] = "ff_wait"
    /\ Returned(id)
    /\ run' = [run EXCEPT ![id] = "none"]
    /\ IF run[id] # "ok" THEN
          /\ SetStatus(id, "error", Msg("Failed to adjust speed: %v", 0, 0, 0))
          /\ Goto(id, "done")
          /\ UNCHANGED loc
       ELSE IF isPlaylist(Job(id).URL) THEN
          /\ loc' = [loc EXCEPT ![id].i = @ + 1, ![id].successCount = @ + 1]
          /\ Goto(id, "pl_loop")
          /\ UNCHANGED <<downloads, hist>>
       ELSE
          /\ Goto(id, "completed")
          /\ UNCHANGED <<downloads, loc, hist>>
    /\ UNCHANGED <<ctxDone, cmdProc, cnt, early, resp, others>>

\* adjustAudioSpeed returns to the playlist loop or to the single-item path.
\* After ffmpeg exited with 0 the call still fails when os.Remove or
\* os.Rename does (replaced = FALSE); such an error carries no tool output.
FF_After(id) ==
    /\ pc[id] = "ff_wait"
    /\ Returned(id)
    /\ run' = [run EXCEPT ![id] = "none"]
    /\ \E replaced \in (IF run[id] = "ok" THEN BOOLEAN ELSE {FALSE}) :
         IF isPlaylist(Job(id).URL) THEN
            /\ loc' = [loc EXCEPT ![id].i = @ + 1,
                                  ![id].successCount = @ + (IF replaced THEN 1 ELSE 0)]
            /\ Goto(id, "pl_loop")
            /\ UNCHANGED <<downloads, hist>>
         ELSE IF ~replaced THEN
            /\ \E len \in OutLens :
                 SetStatus(id, "error",
                     Msg("Failed to adjust speed: %v", 0, 0,
                         IF run[id] \in {"ctxerr", "ok"} THEN 0 ELSE len))
            /\ Goto(id, "done")
            /\ UNCHANGED loc
         ELSE
            /\ Goto(id, "completed")
            /\ UNCHANGED <<downloads, loc, hist>>
    /\ UNCHANGED <<ctxDone, cmdProc, cnt, early, resp, others>>

(* ---------------------------- specification ---------------------------- *)

TaskStep(id) ==
    \/ Task_Start(id)
    \/ Task_SetDownloading(id)
    \/ Task_SetMessage(id)
    \/ Task_PlStoreCmd(id)
    \/ Task_PlStart(id)
    \/ Task_PlAfterRun(id)
    \/ Task_PlSetProcessing(id)
    \/ Task_PlLoop(id)
    \/ Task_PlMessage(id)
    \/ Task_PlCompleted(id)
    \/ DSV_Start(id)
    \/ DSV_After(id)
    \/ Retry_StoreCmd(id)
    \/ Retry_Start(id)
    \/ Retry_After(id)
    \/ Task_SetProcessing(id)
    \/ Task_Completed(id)
    \/ Tempo(id)
    \/ FF_Start(id)
    \/ FF_After(id)

Next ==
    \/ \E url \in URLs, speed \in Speeds : downloadHandler(url, speed)
    \/ \E id \in JobIds : \E seen \in ProcessRead(id) : cancelJobHandler(id, seen)
    \/ \E id \in JobIds : TaskStep(id)
    \/ \E id \in JobIds : ProcExit(id)
    \/ \E id \in JobIds : CtxKill(id)

Spec == Init /\ [][Next]_vars

\* Every task goroutine is scheduled, and every external process ends.
Fairness ==
    \A id \in JobIds :
        /\ WF_vars(TaskStep(id))
        /\ WF_vars(ProcExit(id))

FairSpec == Init /\ [][Next]_vars /\ Fairness

(* ------------------- adjustAudioSpeed: the filter chain ---------------- *)

\* A stage "atempo=<x>" is the number x in units of 1/Prec.
Prec == 10 ^ Decimals

\* Units of One per unit of a printed stage.
Grain == One \div Prec

\* The speeds the chain is computed for: the grid over (0, MaxMult], cut to
\* four decimals, with 3.0, 0.25, 2.0001 and the smallest four-decimal speed.
Multipliers ==
    {Grain * ((i * MaxMult * Prec) \div PlanGrid) : i \in 1..PlanGrid}
        \cup {3 * One, One \div 4, 2 * One + Grain, Grain}

\* "%.1f" in place of "%.4f".
Format1(r) ==
    LET tenth == One \div 10
        q == r \div tenth
    IN  {(IF 2 * (r % tenth) < tenth THEN q ELSE q + 1) * (Prec \div 10)}

\* fmt.Sprintf("%.4f", r), as the values it may print: the nearest number of
\* four decimals; which of the two when r lies halfway depends on the binary
\* value of the float.
Format4(r) ==
    LET q == r \div Grain
        rest == r % Grain
    IN  IF 2 * rest < Grain THEN {q}
        ELSE IF 2 * rest > Grain THEN {q + 1}
        ELSE {q, q + 1}

\* "atempo=2.0" and "atempo=0.5"
Stage20 == 2 * Prec
Stage05 == Prec \div 2

\* The trailing test of the slow branch, written as the one of the fast branch.
TrailingSlow_Pasted(r) == r > One

\* if remaining > 1.0 (after halving) and if remaining < 1.0 (after doubling)
TrailingFast(r) == r > One
TrailingSlow(r) == r < One

\* The first test of the chain, and the variable it leaves to a loop.
Plan_Entry ==
    /\ plan.pc = "entry"
    /\ IF 2 * plan.speed >= One /\ plan.speed <= 2 * One THEN
          \E s \in Format4(plan.speed) :
             plan' = [plan EXCEPT !.filters = <<s>>, !.pc = "done"]
       ELSE IF plan.speed > 2 * One THEN
          plan' = [plan EXCEPT !.remaining = plan.speed, !.pc = "halving"]
       ELSE
          plan' = [plan EXCEPT !.remaining = plan.speed, !.pc = "doubling"]
    /\ UNCHANGED <<taskVars, applyVars, fsVars, regVars, moveVars, workVars>>

\* for remaining > 2.0 { ... }, one turn
Plan_Halve ==
    /\ plan.pc = "halving"
    /\ plan.remaining > 2 * One
    /\ plan' = [plan EXCEPT !.filters = Append(@, Stage20),
                            !.remaining = Halve(@)]
    /\ UNCHANGED <<taskVars, applyVars, fsVars, regVars, moveVars, workVars>>

\* the loop is over: if remaining > 1.0 { append }, strings.Join
Plan_HalveEnd ==
    /\ plan.pc = "halving"
    /\ ~(plan.remaining > 2 * One)
    /\ IF TrailingFast(plan.remaining)
       THEN \E s \in Format4(plan.remaining) :
               plan' = [plan EXCEPT !.filters = Append(@, s), !.pc = "done"]
       ELSE plan' = [plan EXCEPT !.pc = "done"]
    /\ UNCHANGED <<taskVars, applyVars, fsVars, regVars, moveVars, workVars>>

\* for remaining < 0.5 { ... }, one turn
Plan_Double ==
    /\ plan.pc = "doubling"
    /\ 2 * plan.remaining < One
    /\ plan' = [plan EXCEPT !.filters = Append(@, Stage05),
                            !.remaining = Double(@)]
    /\ UNCHANGED <<taskVars, applyVars, fsVars, regVars, moveVars, workVars>>

Plan_DoubleEnd ==
    /\ plan.pc = "doubling"
    /\ ~(2 * plan.remaining < One)
    /\ IF TrailingSlow(plan.remaining)
       THEN \E s \in Format4(plan.remaining) :
               plan' = [plan EXCEPT !.filters = Append(@, s), !.pc = "done"]
       ELSE plan' = [plan EXCEPT !.pc = "done"]
    /\ UNCHANGED <<taskVars, applyVars, fsVars, regVars, moveVars, workVars>>

\* adjustAudioSpeed is entered with a speed.
TempoInit ==
    /\ TaskInit /\ ApplyOff /\ FsOff /\ RegOff /\ MoveOff /\ WorkOff
    /\ \E m \in Multipliers :
          plan = [pc |-> "entry", speed |-> m, remaining |-> 0, filters |-> <<>>]

TempoNext ==
    \/ Plan_Entry
    \/ Plan_Halve
    \/ Plan_HalveEnd
    \/ Plan_Double
    \/ Plan_DoubleEnd

TempoSpec == TempoInit /\ [][TempoNext]_vars

(* --------------------- adjustAudioSpeed: the files ---------------------- *)

\* File names are lists of their dot-separated parts: <<1, "mp3">> is "1.mp3".
BaseNames == {<<k, "mp3">> : k \in 1..MaxFiles}

\* tempFile := inputFile + ".tmp.mp3"
TempName(name) == name \o <<"tmp", "mp3">>

FileNames == BaseNames \cup {TempName(n) : n \in BaseNames}

\* strings.HasSuffix(strings.ToLower(entry.Name()), ".mp3")
HasSuffixMp3(name) == Len(name) >= 2 /\ name[Len(name)] = "mp3"

\* getMP3Files(dir): the names of the MP3 files of a directory.
getMP3Files(d) == {n \in DOMAIN d : d[n] # "absent" /\ HasSuffixMp3(n)}

\* No call of adjustAudioSpeed is in progress.
ApIdle == [pc |-> "idle", file |-> <<>>, ctx |-> FALSE, proc |-> "none",
           opened |-> FALSE, before |-> "absent", result |-> "none", cause |-> "none"]

\* adjustAudioSpeed(ctx, inputFile, speed) is called for a file of TEMP_DIR,
\* with a context that is live or (cancelled = TRUE) already cancelled.
Apply_Call(name, cancelled) ==
    /\ ap.pc = "idle"
    /\ dir[name] # "absent"
    /\ ap' = [ApIdle EXCEPT !.pc = "start", !.file = name, !.ctx = cancelled,
                            !.before = dir[name]]
    /\ UNCHANGED <<taskVars, planVars, fsVars, regVars, moveVars, workVars>>

\* The job of the call is cancelled.
Apply_Cancel ==
    /\ ap.pc \in {"start", "wait", "remove", "rename"}
    /\ ~ap.ctx
    /\ ap' = [ap EXCEPT !.ctx = TRUE]
    /\ UNCHANGED <<taskVars, planVars, fsVars, regVars, moveVars, workVars>>

\* cmd.CombinedOutput() starts ffmpeg, or fails at once when ctx is done.
Apply_Start ==
    /\ ap.pc = "start"
    /\ IF ap.ctx
       THEN ap' = [ap EXCEPT !.pc = "returned", !.result = "error", !.cause = "ctx"]
       ELSE ap' = [ap EXCEPT !.pc = "wait", !.proc = "running"]
    /\ UNCHANGED <<taskVars, planVars, fsVars, regVars, moveVars, workVars>>

\* An ffmpeg that writes its output over the input file.
Apply_ToolOpen_InPlace ==
    /\ ap.pc = "wait" /\ ap.proc = "running" /\ ~ap.opened
    /\ ap' = [ap EXCEPT !.opened = TRUE]
    /\ dir' = [dir EXCEPT ![ap.file] = "partial"]
    /\ UNCHANGED <<out, taskVars, planVars, regVars, moveVars, workVars>>

\* ffmpeg -y ... tempFile: the tool creates or truncates its output file.
Apply_ToolOpen ==
    /\ ap.pc = "wait" /\ ap.proc = "running" /\ ~ap.opened
    /\ ap' = [ap EXCEPT !.opened = TRUE]
    /\ dir' = [dir EXCEPT ![TempName(ap.file)] = "partial"]
    /\ UNCHANGED <<out, taskVars, planVars, regVars, moveVars, workVars>>

\* ffmpeg exits: with 0 once its output is complete, or with an error,
\* before or after it has written some of the output.
Apply_ToolExit ==
    /\ ap.pc = "wait" /\ ap.proc = "running"
    /\ \/ /\ ap.opened
          /\ ap' = [ap EXCEPT !.proc = "ok"]
          /\ dir' = [dir EXCEPT ![TempName(ap.file)] = "processed"]
       \/ /\ ap' = [ap EXCEPT !.proc = "fail"]
          /\ UNCHANGED dir
    /\ UNCHANGED <<out, taskVars, planVars, regVars, moveVars, workVars>>

\* The watcher of exec.CommandContext kills ffmpeg once ctx is done.
Apply_Kill ==
    /\ ap.pc = "wait" /\ ap.proc = "running" /\ ap.ctx
    /\ ap' = [ap EXCEPT !.proc = "killed"]
    /\ UNCHANGED <<taskVars, planVars, fsVars, regVars, moveVars, workVars>>

\* The mutant of Apply_AfterTool: the error of the tool is not looked at.
Apply_AfterTool_Unchecked ==
    /\ ap.pc = "wait" /\ ap.proc \in {"ok", "fail", "killed"}
    /\ ap' = [ap EXCEPT !.pc = "remove"]
    /\ UNCHANGED <<taskVars, planVars, fsVars, regVars, moveVars, workVars>>

\* output, err := cmd.CombinedOutput(); if err != nil { return ... }
Apply_AfterTool ==
    /\ ap.pc = "wait" /\ ap.proc \in {"ok", "fail", "killed"}
    /\ IF ap.proc = "ok"
       THEN ap' = [ap EXCEPT !.pc = "remove"]
       ELSE ap' = [ap EXCEPT !.pc = "returned", !.result = "error", !.cause = "tool"]
    /\ UNCHANGED <<taskVars, planVars, fsVars, regVars, moveVars, workVars>>

\* os.Remove(inputFile), which may fail.
Apply_Remove ==
    /\ ap.pc = "remove"
    /\ \/ /\ dir' = [dir EXCEPT ![ap.file] = "absent"]
          /\ ap' = [ap EXCEPT !.pc = "rename"]
       \/ /\ ap' = [ap EXCEPT !.pc = "returned", !.result = "error", !.cause = "remove"]
          /\ UNCHANGED dir
    /\ UNCHANGED <<out, taskVars, planVars, regVars, moveVars, workVars>>

\* os.Rename(tempFile, inputFile), which may fail.
Apply_Rename ==
    /\ ap.pc = "rename"
    /\ \/ /\ dir' = [dir EXCEPT ![ap.file] = dir[TempName(ap.file)],
                                 ![TempName(ap.file)] = "absent"]
          /\ ap' = [ap EXCEPT !.pc = "returned", !.result = "ok"]
       \/ /\ ap' = [ap EXCEPT !.pc = "returned", !.result = "error", !.cause = "rename"]
          /\ UNCHANGED dir
    /\ UNCHANGED <<out, taskVars, planVars, regVars, moveVars, workVars>>

\* The caller goes on; it may call again.
Apply_Return ==
    /\ ap.pc = "returned"
    /\ ap' = ApIdle
    /\ UNCHANGED <<taskVars, planVars, fsVars, regVars, moveVars, workVars>>

\* TEMP_DIR holds downloaded files and nothing else.
ApplyInit ==
    /\ TaskInit /\ PlanOff /\ RegOff /\ MoveOff /\ WorkOff
    /\ ap = ApIdle
    /\ out = Off
    /\ \E present \in (SUBSET BaseNames) \ {{}} :
          dir = [n \in FileNames |-> IF n \in present THEN "original" ELSE "absent"]

ApplyNext ==
    \/ \E name \in BaseNames, cancelled \in BOOLEAN : Apply_Call(name, cancelled)
    \/ Apply_Cancel
    \/ Apply_Start
    \/ Apply_ToolOpen
    \/ Apply_ToolExit
    \/ Apply_Kill
    \/ Apply_AfterTool
    \/ Apply_Remove
    \/ Apply_Rename
    \/ Apply_Return

ApplySpec == ApplyInit /\ [][ApplyNext]_vars

(* ---------------- the registry under concurrent requests ---------------- *)

Clients == 1..MaxClients

\* uuid.New() gives every accepted request an identifier.
RegIds == 1..MaxClients

\* The bodies of the requests: not JSON, or a url and a speed.
Bodies ==
    {[json |-> FALSE, url |-> "", speed |-> 0]}
        \cup {[json |-> TRUE, url |-> u, speed |-> sp] :
                 u \in {"", "watch?v=x"}, sp \in {0, (7 * One) \div 4}}

SubIdle == [pc |-> "idle", url |-> "", speed |-> 0, id |-> 0, code |-> 0]

\* The identifiers uuid.New() has given so far.
Issued == {sub[c].id : c \in Clients} \ {0}

\* A handler that registers a job although the request is not valid.
downloadHandler_Reject_Creates(c, body) ==
    /\ sub[c].pc = "idle"
    /\ ~body.json \/ body.url = ""
    /\ LET id == FreshID(RegIds, Issued)
       IN  /\ sub' = [sub EXCEPT ![c] = [SubIdle EXCEPT !.pc = "done", !.code = 400, !.id = id]]
           /\ downloads' = [downloads EXCEPT ![id] =
                  [ID |-> id, Status |-> "queued",
                   Message |-> Msg("Starting download...", 0, 0, 0),
                   Progress |-> "0%", URL |-> body.url, Speed |-> One,
                   CreatedAt |-> clock, cancel |-> TRUE, cmd |-> "nil"]]
           /\ hist' = [hist EXCEPT ![id] = <<"queued">>]
           /\ pc' = [pc EXCEPT ![id] = "start"]
    /\ UNCHANGED <<ctxDone, run, cmdProc, loc, cnt, early, resp, clock, listed, get,
                   planVars, applyVars, fsVars, moveVars, workVars>>

\* downloadHandler, request c: the body does not bind or has no url; the
\* handler answers 400 and returns.
downloadHandler_Reject(c, body) ==
    /\ sub[c].pc = "idle"
    /\ ~body.json \/ body.url = ""
    /\ sub' = [sub EXCEPT ![c] = [SubIdle EXCEPT !.pc = "done", !.code = 400]]
    /\ UNCHANGED <<taskVars, clock, listed, get, planVars, applyVars, fsVars, moveVars, workVars>>

\* downloadHandler, request c: the body is valid; speed 0 becomes 1.0 and
\* uuid.New() gives the identifier.
downloadHandler_Accept(c, body) ==
    /\ sub[c].pc = "idle"
    /\ body.json /\ body.url # ""
    /\ sub' = [sub EXCEPT ![c] =
                  [pc |-> "insert", url |-> body.url,
                   speed |-> IF body.speed = 0 THEN One ELSE body.speed,
                   id |-> FreshID(RegIds, Issued), code |-> 0]]
    /\ UNCHANGED <<taskVars, clock, listed, get, planVars, applyVars, fsVars, moveVars, workVars>>

\* mu.Lock(); downloads[downloadID] = &DownloadStatus{...}; mu.Unlock().
\* CreatedAt is time.Now(); tick is the time gone by since it was last read.
downloadHandler_Insert(c, tick) ==
    /\ sub[c].pc = "insert"
    /\ clock' = clock + tick
    /\ downloads' = [downloads EXCEPT ![sub[c].id] =
           [ID |-> sub[c].id, Status |-> "queued",
            Message |-> Msg("Starting download...", 0, 0, 0),
            Progress |-> "0%", URL |-> sub[c].url, Speed |-> sub[c].speed,
            CreatedAt |-> clock + tick, cancel |-> TRUE, cmd |-> "nil"]]
    /\ hist' = [hist EXCEPT ![sub[c].id] = <<"queued">>]
    /\ sub' = [sub EXCEPT ![c].pc = "go"]
    /\ UNCHANGED <<ctxDone, pc, run, cmdProc, loc, cnt, early, resp, listed, get,
                   planVars, applyVars, fsVars, moveVars, workVars>>

\* go downloadTask(ctx, req.URL, req.Speed, downloadID)
downloadHandler_Go(c) ==
    /\ sub[c].pc = "go"
    /\ pc' = [pc EXCEPT ![sub[c].id] = "start"]
    /\ sub' = [sub EXCEPT ![c].pc = "respond"]
    /\ UNCHANGED <<downloads, ctxDone, run, cmdProc, loc, hist, cnt, early, resp,
                   clock, listed, get, planVars, applyVars, fsVars, moveVars, workVars>>

\* c.JSON(http.StatusOK, gin.H{"download_id": downloadID})
downloadHandler_Respond(c) ==
    /\ sub[c].pc = "respond"
    /\ sub' = [sub EXCEPT ![c].pc = "done", ![c].code = 200]
    /\ UNCHANGED <<taskVars, clock, listed, get, planVars, applyVars, fsVars, moveVars, workVars>>

RegistryInit ==
    /\ TaskInitOver(RegIds) /\ PlanOff /\ ApplyOff /\ FsOff /\ MoveOff /\ WorkOff
    /\ sub = [c \in Clients |-> SubIdle]
    /\ clock = 0
    /\ listed = Off /\ get = Off

RegistryNext ==
    \/ \E c \in Clients, body \in Bodies : downloadHandler_Reject(c, body)
    \/ \E c \in Clients, body \in Bodies : downloadHandler_Accept(c, body)
    \/ \E c \in Clients, tick \in {0, 1} : downloadHandler_Insert(c, tick)
    \/ \E c \in Clients : downloadHandler_Go(c)
    \/ \E c \in Clients : downloadHandler_Respond(c)
    \/ \E id \in RegIds : Task_Start(id)
    \/ \E id \in RegIds : Task_SetDownloading(id)

RegistrySpec == RegistryInit /\ [][RegistryNext]_vars

(* --------------------------- listJobsHandler --------------------------- *)

\* The copy listJobsHandler makes of a job, without its internal fields.
Snapshot(job) ==
    [ID |-> job.ID, Status |-> job.Status, Message |-> job.Message,
     Progress |-> job.Progress, URL |-> job.URL, Speed |-> job.Speed,
     CreatedAt |-> job.CreatedAt]

\* A comparison that puts the oldest job first.
After_Before(a, b) == a < b

\* jobs[i].CreatedAt.After(jobs[j].CreatedAt)
After(a, b) == a > b

\* One turn of the outer loop of the insertion sort sort.Slice runs on a
\* short slice: x moves left while it is less than the element before it.
RECURSIVE InsertLeft(_, _)
InsertLeft(sorted, x) ==
    IF sorted = <<>> THEN <<x>>
    ELSE LET prev == sorted[Len(sorted)]
         IN  IF After(x.CreatedAt, prev.CreatedAt)
             THEN Append(InsertLeft(SubSeq(sorted, 1, Len(sorted) - 1), x), prev)
             ELSE Append(sorted, x)

\* sort.Slice(jobs, func(i, j int) bool { ... })
RECURSIVE SortSlice(_)
SortSlice(jobs) ==
    IF jobs = <<>> THEN <<>>
    ELSE InsertLeft(SortSlice(SubSeq(jobs, 1, Len(jobs) - 1)), jobs[Len(jobs)])

\* The orders in which `for _, job := range downloads` may visit the jobs.
RangeOrders ==
    LET present == {id \in DOMAIN downloads : exists(id)}
        n == Cardinality(present)
    IN  {o \in [1..n -> present] : \A i, j \in 1..n : i # j => o[i] # o[j]}

\* GET /jobs: the copies are made under mu.RLock(), then sorted, and sent as
\* gin.H{"jobs": jobs}.
listJobsHandler(order) ==
    /\ listed' = [jobs |-> SortSlice([k \in 1..Len(order) |-> Snapshot(downloads[order[k]])])]
    /\ UNCHANGED <<taskVars, sub, clock, get, planVars, applyVars, fsVars, moveVars, workVars>>

ListIds == 1..MaxEntries

\* The Status of a new job, of one whose task is at work, of one that ended.
ListStatuses == {"queued", "processing", "completed"}

\* A job of the registry, of Status st and created at time t.
ListJob(id, st, t) ==
    [ID |-> id, Status |-> st, Message |-> Msg(st, 0, 0, 0), Progress |-> "0%",
     URL |-> "watch?v=x", Speed |-> One, CreatedAt |-> t, cancel |-> TRUE,
     cmd |-> "nil"]

\* listJobsHandler reads the registry and nothing else: the registry is any
\* that earlier requests and tasks may have left (jobs early, midway or late
\* in their lives, made at any times), and the tasks' own state is left out.
ListInit ==
    /\ \E present \in SUBSET ListIds :
       \E st \in [present -> ListStatuses], t \in [present -> 1..MaxEntries] :
          downloads = [id \in ListIds |->
                          IF id \in present THEN ListJob(id, st[id], t[id]) ELSE NoJob]
    /\ ctxDone = [id \in ListIds |-> FALSE]
    /\ pc = [id \in ListIds |-> "none"]
    /\ run = [id \in ListIds |-> "none"]
    /\ cmdProc = [id \in ListIds |-> "nil"]
    /\ loc = [id \in ListIds |-> [remaining |-> 0, i |-> 0, n |-> 0, successCount |-> 0]]
    /\ hist = [id \in ListIds |-> <<>>]
    /\ cnt = [id \in ListIds |-> [signals |-> 0, kills |-> 0, fetches |-> 0, transforms |-> 0]]
    /\ early = [id \in ListIds |-> FALSE]
    /\ resp = [op |-> "none", id |-> 0, code |-> 0]
    /\ PlanOff /\ ApplyOff /\ FsOff /\ MoveOff /\ WorkOff
    /\ sub = Off /\ clock = 0
    /\ listed = Off /\ get = Off

ListNext == \E order \in RangeOrders : listJobsHandler(order)

ListSpec == ListInit /\ [][ListNext]_vars


(* ---------------- moveFilesHandler and copyFile (handlers.go) ---------- *)

\* The name "../0.mp3": filepath.Join(TEMP_DIR, name) leaves TEMP_DIR.
Escaping == <<0, "mp3">>

MoveNames == BaseNames \cup {Escaping}

\* strings.HasPrefix(srcPath, TEMP_DIR) && strings.HasPrefix(dstPath, OUTPUT_DIR)
ValidPath(name) == name # Escaping

\* Bodies of a request: one that does not bind, or a list of file names.
MoveBodies ==
    {[json |-> FALSE, filenames |-> <<>>]}
    \cup {[json |-> TRUE, filenames |-> f] :
             f \in UNION {[1..n -> MoveNames] : n \in 0..MaxReq}}

MvIdle(xdev) ==
    [pc |-> "idle", xdev |-> xdev, filenames |-> <<>>, i |-> 0,
     movedCount |-> 0, errors |-> <<>>, code |-> 0,
     exdev |-> {}, copied |-> {}, counted |-> {}]

\* A file of OUTPUT_DIR: what it holds, and whether Sync has been called on
\* it since it was last written.
NoFile == [content |-> "absent", synced |-> FALSE]

filename == mv.filenames[mv.i]

\* The mutant of AppendError: the first failure ends the request.
AppendError_Fatal(m, e) ==
    [m EXCEPT !.errors = Append(@, [file |-> m.filenames[m.i], text |-> e]),
              !.pc = "done", !.code = 500]

\* errors = append(errors, fmt.Sprintf("%s: ...", filename)); continue
AppendError(m, e) ==
    [m EXCEPT !.errors = Append(@, [file |-> m.filenames[m.i], text |-> e]),
              !.i = @ + 1, !.pc = "loop"]

\* c.ShouldBindJSON fails, or len(req.Filenames) == 0: 400.
moveFilesHandler_BadRequest(body) ==
    /\ mv.pc = "idle"
    /\ ~body.json \/ Len(body.filenames) = 0
    /\ mv' = [mv EXCEPT !.pc = "done", !.code = 400]
    /\ UNCHANGED <<dir, out, taskVars, planVars, applyVars, regVars, workVars>>

\* movedCount := 0; errors := []string{}; the loop starts.
moveFilesHandler_Begin(body) ==
    /\ mv.pc = "idle"
    /\ body.json /\ Len(body.filenames) > 0
    /\ mv' = [mv EXCEPT !.pc = "loop", !.filenames = body.filenames, !.i = 1]
    /\ UNCHANGED <<dir, out, taskVars, planVars, applyVars, regVars, workVars>>

\* The path leaves its directory: "Invalid path"; continue.
moveFilesHandler_InvalidPath ==
    /\ mv.pc = "loop" /\ mv.i <= Len(mv.filenames)
    /\ ~ValidPath(filename)
    /\ mv' = AppendError(mv, "Invalid path")
    /\ UNCHANGED <<dir, out, taskVars, planVars, applyVars, regVars, workVars>>

\* os.Stat(srcPath): the file is not in TEMP_DIR; continue.
moveFilesHandler_NotFound ==
    /\ mv.pc = "loop" /\ mv.i <= Len(mv.filenames)
    /\ ValidPath(filename) /\ dir[filename] = "absent"
    /\ mv' = AppendError(mv, "File not found in temp")
    /\ UNCHANGED <<dir, out, taskVars, planVars, applyVars, regVars, workVars>>

\* os.Stat(srcPath) finds the file.
moveFilesHandler_Stat ==
    /\ mv.pc = "loop" /\ mv.i <= Len(mv.filenames)
    /\ ValidPath(filename) /\ dir[filename] # "absent"
    /\ mv' = [mv EXCEPT !.pc = "rename"]
    /\ UNCHANGED <<dir, out, taskVars, planVars, applyVars, regVars, workVars>>

\* os.Rename(srcPath, dstPath) succeeds: both directories are on one device.
moveFilesHandler_Rename ==
    /\ mv.pc = "rename" /\ ~mv.xdev
    /\ out' = [out EXCEPT ![filename] = [content |-> dir[filename], synced |-> FALSE]]
    /\ dir' = [dir EXCEPT ![filename] = "absent"]
    /\ mv' = [mv EXCEPT !.pc = "count"]
    /\ UNCHANGED <<taskVars, planVars, applyVars, regVars, workVars>>

\* os.Rename fails with a *os.LinkError of EXDEV: copy instead.
moveFilesHandler_RenameEXDEV ==
    /\ mv.pc = "rename" /\ mv.xdev
    /\ mv' = [mv EXCEPT !.pc = "open", !.exdev = @ \cup {mv.i}]
    /\ UNCHANGED <<dir, out, taskVars, planVars, applyVars, regVars, workVars>>

\* os.Rename fails with any other error; continue.
moveFilesHandler_RenameError ==
    /\ mv.pc = "rename"
    /\ mv' = AppendError(mv, "rename")
    /\ UNCHANGED <<dir, out, taskVars, planVars, applyVars, regVars, workVars>>

\* copyFile: os.Open(src).
copyFile_Open(ok) ==
    /\ mv.pc = "open"
    /\ mv' = IF ok THEN [mv EXCEPT !.pc = "create"] ELSE AppendError(mv, "copy")
    /\ UNCHANGED <<dir, out, taskVars, planVars, applyVars, regVars, workVars>>

\* copyFile: os.Create(dst) creates or truncates the destination.
copyFile_Create(ok) ==
    /\ mv.pc = "create"
    /\ IF ok
       THEN /\ out' = [out EXCEPT ![filename] = [content |-> "empty", synced |-> FALSE]]
            /\ mv' = [mv EXCEPT !.pc = "copy"]
       ELSE /\ mv' = AppendError(mv, "copy")
            /\ UNCHANGED out
    /\ UNCHANGED <<dir, taskVars, planVars, applyVars, regVars, workVars>>

\* copyFile: io.Copy(destFile, sourceFile) writes all of the source, or fails
\* after some of it.
copyFile_Copy(ok) ==
    /\ mv.pc = "copy"
    /\ IF ok
       THEN /\ out' = [out EXCEPT ![filename] = [content |-> dir[filename], synced |-> FALSE]]
            /\ mv' = [mv EXCEPT !.pc = "sync"]
       ELSE /\ out' = [out EXCEPT ![filename] = [content |-> "partial", synced |-> FALSE]]
            /\ mv' = AppendError(mv, "copy")
    /\ UNCHANGED <<dir, taskVars, planVars, applyVars, regVars, workVars>>

\* copyFile: return destFile.Sync().
copyFile_Sync(ok) ==
    /\ mv.pc = "sync"
    /\ IF ok
       THEN /\ out' = [out EXCEPT ![filename].synced = TRUE]
            /\ mv' = [mv EXCEPT !.pc = "remove", !.copied = @ \cup {mv.i}]
       ELSE /\ mv' = AppendError(mv, "copy")
            /\ UNCHANGED out
    /\ UNCHANGED <<dir, taskVars, planVars, applyVars, regVars, workVars>>

\* os.Remove(srcPath) after the copy: a failure is appended to errors and the
\* loop body goes on to movedCount++ ("Continue anyway since file was copied").
moveFilesHandler_Remove(ok) ==
    /\ mv.pc = "remove"
    /\ IF ok
       THEN /\ dir' = [dir EXCEPT ![filename] = "absent"]
            /\ mv' = [mv EXCEPT !.pc = "count"]
       ELSE /\ mv' = [mv EXCEPT !.pc = "count",
                                !.errors = Append(@, [file |-> filename,
                                    text |-> "copied but failed to remove source"])]
            /\ UNCHANGED dir
    /\ UNCHANGED <<out, taskVars, planVars, applyVars, regVars, workVars>>

\* movedCount++
moveFilesHandler_Count ==
    /\ mv.pc = "count"
    /\ mv' = [mv EXCEPT !.pc = "loop", !.movedCount = @ + 1, !.i = @ + 1,
                        !.counted = @ \cup {mv.i}]
    /\ UNCHANGED <<dir, out, taskVars, planVars, applyVars, regVars, workVars>>

\* c.JSON(200, {"success": true, "moved": movedCount, "errors": errors})
moveFilesHandler_Respond ==
    /\ mv.pc = "loop" /\ mv.i > Len(mv.filenames)
    /\ mv' = [mv EXCEPT !.pc = "done", !.code = 200]
    /\ UNCHANGED <<dir, out, taskVars, planVars, applyVars, regVars, workVars>>

\* One request; TEMP_DIR holds some of the files, OUTPUT_DIR is empty, and the
\* two directories are on one device or on two.
MoveInit ==
    /\ TaskInit /\ PlanOff /\ ApplyOff /\ RegOff /\ WorkOff
    /\ \E xdev \in BOOLEAN : mv = MvIdle(xdev)
    /\ \E present \in SUBSET BaseNames :
          dir = [n \in BaseNames |-> IF n \in present THEN "data" ELSE "absent"]
    /\ out = [n \in BaseNames |-> NoFile]

MoveNext ==
    \/ \E body \in MoveBodies : moveFilesHandler_BadRequest(body)
    \/ \E body \in MoveBodies : moveFilesHandler_Begin(body)
    \/ moveFilesHandler_InvalidPath
    \/ moveFilesHandler_NotFound
    \/ moveFilesHandler_Stat
    \/ moveFilesHandler_Rename
    \/ moveFilesHandler_RenameEXDEV
    \/ moveFilesHandler_RenameError
    \/ \E ok \in BOOLEAN : copyFile_Open(ok)
    \/ \E ok \in BOOLEAN : copyFile_Create(ok)
    \/ \E ok \in BOOLEAN : copyFile_Copy(ok)
    \/ \E ok \in BOOLEAN : copyFile_Sync(ok)
    \/ \E ok \in BOOLEAN : moveFilesHandler_Remove(ok)
    \/ moveFilesHandler_Count
    \/ moveFilesHandler_Respond

MoveSpec == MoveInit /\ [][MoveNext]_vars


(* ---------------------- statusHandler (handlers.go) -------------------- *)

GetIdle == [pc |-> "idle", status |-> 0, locked |-> NoJob, body |-> NoJob, code |-> 0]

\* mu.RLock(); status, exists := downloads[downloadID]; mu.RUnlock(): the
\* handler leaves the critical section with the pointer.  locked is the job
\* as it was while the handler held the lock; the code does not keep it.
statusHandler_Lookup(id) ==
    /\ get.pc = "idle"
    /\ get' = IF exists(id)
              THEN [get EXCEPT !.pc = "status", !.status = id, !.locked = downloads[id]]
              ELSE [get EXCEPT !.pc = "done", !.code = 404]
    /\ UNCHANGED <<taskVars, sub, clock, listed, planVars, applyVars, fsVars, moveVars, workVars>>

\* c.JSON(200, status): the encoder reads the fields of *status in the order
\* of the struct, without mu; first those up to Status, ...
statusHandler_EncodeStatus ==
    /\ get.pc = "status"
    /\ get' = [get EXCEPT !.pc = "message",
                  !.body = [ID |-> downloads[get.status].ID,
                            Status |-> downloads[get.status].Status]]
    /\ UNCHANGED <<taskVars, sub, clock, listed, planVars, applyVars, fsVars, moveVars, workVars>>

\* ... then Message and the fields after it, and the response is written.
statusHandler_EncodeMessage ==
    /\ get.pc = "message"
    /\ get' = [get EXCEPT !.pc = "done", !.code = 200,
                  !.body = [ID |-> get.body.ID, Status |-> get.body.Status,
                            Message |-> downloads[get.status].Message,
                            Progress |-> downloads[get.status].Progress,
                            URL |-> downloads[get.status].URL,
                            Speed |-> downloads[get.status].Speed,
                            CreatedAt |-> downloads[get.status].CreatedAt]]
    /\ UNCHANGED <<taskVars, sub, clock, listed, planVars, applyVars, fsVars, moveVars, workVars>>

\* The next request to GET /status/:id.
statusHandler_Return ==
    /\ get.pc = "done"
    /\ get' = GetIdle
    /\ UNCHANGED <<taskVars, sub, clock, listed, planVars, applyVars, fsVars, moveVars, workVars>>

StatusInit ==
    /\ TaskInit /\ PlanOff /\ ApplyOff /\ FsOff /\ MoveOff /\ WorkOff
    /\ sub = Off /\ clock = 0 /\ listed = Off
    /\ get = GetIdle

StatusNext ==
    \/ Next
    \/ \E id \in JobIds : statusHandler_Lookup(id)
    \/ statusHandler_EncodeStatus
    \/ statusHandler_EncodeMessage
    \/ statusHandler_Return

StatusSpec == StatusInit /\ [][StatusNext]_vars


(* --------------------- two jobs running side by side ------------------- *)

\* Two jobs, A and B, of the registry.
PairIds == {"A", "B"}

\* The requests the two jobs were made from: a single video or a playlist, at
\* speed 1.0 or 1.75.
PairURLs == URLs \ {""}
PairSpeeds == {One, (7 * One) \div 4}

\* The entry downloadHandler inserts.
PairJob(id, url, speed, t) ==
    [ID |-> id, Status |-> "queued",
     Message |-> Msg("Starting download...", 0, 0, 0),
     Progress |-> "0%", URL |-> url, Speed |-> speed,
     CreatedAt |-> t, cancel |-> TRUE, cmd |-> "nil"]

\* Both requests have been answered and the two goroutines have been started
\* (go downloadTask), A's request first.
PairInit ==
    /\ \E url \in [PairIds -> PairURLs], speed \in [PairIds -> PairSpeeds] :
          downloads = [id \in PairIds |->
              PairJob(id, url[id], speed[id], IF id = "A" THEN 1 ELSE 2)]
    /\ ctxDone = [id \in PairIds |-> FALSE]
    /\ pc = [id \in PairIds |-> "start"]
    /\ run = [id \in PairIds |-> "none"]
    /\ cmdProc = [id \in PairIds |-> "nil"]
    /\ loc = [id \in PairIds |-> [remaining |-> 0, i |-> 0, n |-> 0, successCount |-> 0]]
    /\ hist = [id \in PairIds |-> <<"queued">>]
    /\ cnt = [id \in PairIds |-> [signals |-> 0, kills |-> 0, fetches |-> 0, transforms |-> 0]]
    /\ early = [id \in PairIds |-> FALSE]
    /\ resp = [op |-> "download", id |-> "B", code |-> 200]
    /\ PlanOff /\ ApplyOff /\ FsOff /\ RegOff /\ MoveOff /\ WorkOff

PairNext ==
    \/ \E id \in PairIds : \E seen \in ProcessRead(id) : cancelJobHandler(id, seen)
    \/ \E id \in PairIds : TaskStep(id)
    \/ \E id \in PairIds : ProcExit(id)
    \/ \E id \in PairIds : CtxKill(id)

PairSpec == PairInit /\ [][PairNext]_vars


(* ------------- two tasks in the shared directory TEMP_DIR -------------- *)

\* The file yt-dlp writes for job id ("%(title)s.mp3").
DownloadOf(id) == <<id, "mp3">>

\* A directory without files.
EmptyDir == [n \in {} |-> "absent"]

\* The directory with file name written (created or replaced).
WriteFile(d, name, content) == (name :> content) @@ d

\* The directory without file name.
RemoveFile(d, name) == [n \in DOMAIN d \ {name} |-> d[n]]

\* The modification time a file written now gets: later than every earlier one.
Now == wd.now + 1

\* The file of a set that info.ModTime().After(newestTime) ends with: the one
\* modified last.
Newest(files) == CHOOSE f \in files : \A g \in files : wd.at[g] <= wd.at[f]

WorkIdle(playlist, adjust) ==
    [pc |-> "start", playlist |-> playlist, adjust |-> adjust,
     filesBefore |-> {}, newFiles |-> {}, picked |-> {}, cur |-> <<>>]

\* The task of job id with locals l.
Local(id, l) == [wd EXCEPT !.job[id] = l]

\* filesBefore := getMP3Files(TEMP_DIR), in the playlist workflow.
Work_FilesBefore(id) ==
    /\ wd.job[id].pc = "start"
    /\ wd' = Local(id, [wd.job[id] EXCEPT !.pc = "fetch",
              !.filesBefore = IF wd.job[id].playlist THEN getMP3Files(dir) ELSE {}])
    /\ UNCHANGED <<dir, out, taskVars, planVars, applyVars, regVars, moveVars>>

\* yt-dlp writes the job's file into TEMP_DIR and exits with 0.
Work_Fetch(id) ==
    /\ wd.job[id].pc = "fetch"
    /\ dir' = WriteFile(dir, DownloadOf(id), "original")
    /\ wd' = [wd EXCEPT !.job[id].pc = "after",
                        !.by = WriteFile(@, DownloadOf(id), id),
                        !.at = WriteFile(@, DownloadOf(id), Now), !.now = Now]
    /\ UNCHANGED <<out, taskVars, planVars, applyVars, regVars, moveVars>>

\* yt-dlp fails (twice, for a single video): the task ends.
Work_FetchFail(id) ==
    /\ wd.job[id].pc = "fetch"
    /\ wd' = [wd EXCEPT !.job[id].pc = "done"]
    /\ UNCHANGED <<dir, out, taskVars, planVars, applyVars, regVars, moveVars>>

\* filesAfter := getMP3Files(TEMP_DIR); newFiles: those not in filesBefore.
Work_NewFiles(id) ==
    /\ wd.job[id].pc = "after" /\ wd.job[id].playlist
    /\ LET new == getMP3Files(dir) \ wd.job[id].filesBefore
       IN  wd' = Local(id, [wd.job[id] EXCEPT
                   !.newFiles = new,
                   !.picked = {wd.by[f] : f \in new},
                   !.pc = IF wd.job[id].adjust /\ new # {} THEN "loop" ELSE "done"])
    /\ UNCHANGED <<dir, out, taskVars, planVars, applyVars, regVars, moveVars>>

\* files := getMP3Files(TEMP_DIR); the most recently modified one is the
\* job's file; none is the error "No MP3 file was created".
Work_NewestFile(id) ==
    /\ wd.job[id].pc = "after" /\ ~wd.job[id].playlist
    /\ LET files == getMP3Files(dir)
       IN  wd' = IF files = {}
                 THEN [wd EXCEPT !.job[id].pc = "done"]
                 ELSE Local(id, [wd.job[id] EXCEPT
                         !.newFiles = {Newest(files)},
                         !.picked = {wd.by[Newest(files)]},
                         !.pc = IF wd.job[id].adjust THEN "loop" ELSE "done"])
    /\ UNCHANGED <<dir, out, taskVars, planVars, applyVars, regVars, moveVars>>

\* adjustAudioSpeed for the next file: ffmpeg writes the temporary file and
\* exits with 0, or fails because its input is no longer there.
Work_Ffmpeg(id) ==
    /\ wd.job[id].pc = "loop"
    /\ \E f \in wd.job[id].newFiles :
          IF f \in DOMAIN dir
          THEN /\ dir' = WriteFile(dir, TempName(f), "processed")
               /\ wd' = [wd EXCEPT !.job[id].pc = "replace", !.job[id].cur = f,
                                   !.by = WriteFile(@, TempName(f), id),
                                   !.at = WriteFile(@, TempName(f), Now), !.now = Now]
          ELSE /\ wd' = [wd EXCEPT !.job[id].newFiles = @ \ {f}]
               /\ UNCHANGED dir
    /\ UNCHANGED <<out, taskVars, planVars, applyVars, regVars, moveVars>>

\* os.Remove(inputFile); os.Rename(tempFile, inputFile).  Either fails when
\* another task has taken the file away.
Work_Replace(id) ==
    /\ wd.job[id].pc = "replace"
    /\ LET f == wd.job[id].cur
           t == TempName(f)
           next == [wd.job[id] EXCEPT !.pc = "loop", !.cur = <<>>, !.newFiles = @ \ {f}]
       IN  IF f \in DOMAIN dir /\ t \in DOMAIN dir
           THEN /\ dir' = RemoveFile(WriteFile(dir, f, dir[t]), t)
                /\ wd' = [wd EXCEPT !.job[id] = next,
                                    !.at = RemoveFile(WriteFile(@, f, wd.at[t]), t),
                                    !.by = RemoveFile(@, t)]
           ELSE IF f \in DOMAIN dir
           THEN /\ dir' = RemoveFile(dir, f)
                /\ wd' = [wd EXCEPT !.job[id] = next,
                                    !.at = RemoveFile(@, f), !.by = RemoveFile(@, f)]
           ELSE /\ wd' = [wd EXCEPT !.job[id] = next]
                /\ UNCHANGED dir
    /\ UNCHANGED <<out, taskVars, planVars, applyVars, regVars, moveVars>>

\* The loop over the files has ended.
Work_Completed(id) ==
    /\ wd.job[id].pc = "loop" /\ wd.job[id].newFiles = {}
    /\ wd' = [wd EXCEPT !.job[id].pc = "done"]
    /\ UNCHANGED <<dir, out, taskVars, planVars, applyVars, regVars, moveVars>>

\* Two jobs have been accepted, each for a single video or a playlist, with
\* or without a change of speed; TEMP_DIR is empty.
WorkInit ==
    /\ TaskInit /\ PlanOff /\ ApplyOff /\ RegOff /\ MoveOff
    /\ dir = EmptyDir /\ out = Off
    /\ \E playlist \in [PairIds -> BOOLEAN], adjust \in [PairIds -> BOOLEAN] :
          wd = [job |-> [id \in PairIds |-> WorkIdle(playlist[id], adjust[id])],
                by |-> EmptyDir, at |-> EmptyDir, now |-> 0]

WorkNext ==
    \E id \in PairIds :
        \/ Work_FilesBefore(id)
        \/ Work_Fetch(id)
        \/ Work_FetchFail(id)
        \/ Work_NewFiles(id)
        \/ Work_NewestFile(id)
        \/ Work_Ffmpeg(id)
        \/ Work_Replace(id)
        \/ Work_Completed(id)

WorkSpec == WorkInit /\ [][WorkNext]_vars


(* ------------------------------ claims --------------------------------- *)

Jobs == {id \in JobIds : exists(id)}

\* C1: completed, error and cancelled are terminal: no step changes a
\* terminal Status to a different value.
C1_TerminalIsFinal ==
    [][\A id \in JobIds :
          (exists(id) /\ Status(id) \in Terminal) =>
              downloads'[id].Status = downloads[id].Status]_vars

\* C2: a cancel request for a job whose Status is terminal answers 400
\* (NotCancellable), one for an unknown id answers 404 (NotFound), and
\* neither changes the job, signals its context or kills a process.
C2_CancelRejected ==
    [][\A id \in JobIds : \A seen \in ProcessRead(id) :
          (cancelJobHandler(id, seen) /\ (~exists(id) \/ Status(id) \in Terminal)) =>
              /\ resp' = [op |-> "cancel", id |-> 0,
                          code |-> IF exists(id) THEN 400 ELSE 404]
              /\ UNCHANGED <<downloads, ctxDone, pc, run, cmdProc, loc, hist, cnt, early>>]_vars

C2_Witness ==
    /\ resp.op = "cancel" /\ resp.code = 400
    /\ \E id \in Jobs : Status(id) = "completed" /\ cnt[id].signals = 0

\* C3: a job is cancelled at most once: its context is signalled at most
\* once (no second cancel request succeeds) and at most one kill is issued.
C3_CancelAtMostOnce ==
    \A id \in JobIds : cnt[id].signals <= 1 /\ cnt[id].kills <= 1

\* C4: a cancel request for a job whose Status is queued, downloading or
\* processing, in one step: signals the context, kills the process of the
\* stored command if the handler finds one (and only then), sets Status to
\* cancelled and answers 200.
C4_CancelAtomic ==
    [][\A id \in JobIds : \A seen \in ProcessRead(id) :
          (cancelJobHandler(id, seen) /\ exists(id) /\ Status(id) \in Active) =>
              /\ ctxDone'[id]
              /\ cnt'[id].signals = cnt[id].signals + 1
              /\ cnt'[id].kills = cnt[id].kills + (IF seen # "nil" THEN 1 ELSE 0)
              /\ seen = "running" => (cmdProc'[id] = "exited" /\ run'[id] = "killed")
              /\ downloads'[id].Status = "cancelled"
              /\ resp' = [op |-> "cancel", id |-> 0, code |-> 200]]_vars

C4_Witness ==
    \E id \in Jobs :
        /\ resp = [op |-> "cancel", id |-> 0, code |-> 200]
        /\ Status(id) = "cancelled" /\ ctxDone[id]
        /\ cnt[id].kills = 1 /\ run[id] = "killed"

\* C5: a job cancelled before its task launched any external process never
\* has one launched, and its task ends with Status cancelled.
C5_CancelledBeforeLaunch ==
    \A id \in Jobs :
        early[id] =>
            /\ cnt[id].fetches = 0 /\ cnt[id].transforms = 0
            /\ run[id] \in {"none", "ctxerr"}
            /\ pc[id] = "done" => Status(id) = "cancelled"

C5_Witness ==
    \E id \in Jobs :
        /\ early[id] /\ pc[id] = "done" /\ Status(id) = "cancelled"
        /\ hist[id] = <<"queued", "cancelled", "downloading", "cancelled">>

\* C6: every job that was accepted eventually has a terminal Status.
C6_EventuallyTerminal ==
    \A id \in JobIds :
        exists(id) ~> (exists(id) /\ Status(id) \in Terminal)

\* The Status values of h without the ones a cancel request wrote.
TaskStatuses(h) == SelectSeq(h, LAMBDA s : s # "cancelled")

\* C7: Status is processing only for a speed other than 1.0; a job of speed
\* 1.0 never is processing, never has ffmpeg launched, and is completed
\* straight from downloading.
C7_ProcessingOnlyForSpeed ==
    \A id \in Jobs :
        /\ Status(id) = "processing" => Job(id).Speed # One
        /\ Job(id).Speed = One =>
              /\ \A k \in 1..Len(hist[id]) : hist[id][k] # "processing"
              /\ cnt[id].transforms = 0
              /\ pc[id] \notin {"set_processing", "pl_set_processing", "pl_message",
                                "tempo", "ff_start", "ff_wait"}
              /\ Status(id) = "completed" =>
                    TaskStatuses(hist[id]) = <<"queued", "downloading", "completed">>

C7_Witness ==
    /\ \E id \in Jobs :
          /\ Job(id).Speed = One /\ isPlaylist(Job(id).URL)
          /\ Status(id) = "completed" /\ loc[id].n > 0
          /\ hist[id] = <<"queued", "downloading", "completed">>

\* C8: a single-item job of a speed other than 1.0 that is never cancelled
\* and completes has taken exactly the Status values queued, downloading,
\* processing, completed, in this order.
C8_StatusSequence ==
    \A id \in Jobs :
        (~isPlaylist(Job(id).URL) /\ Job(id).Speed # One /\ cnt[id].signals = 0) =>
            /\ \/ \E k \in 1..4 :
                     hist[id] = SubSeq(<<"queued", "downloading", "processing", "completed">>, 1, k)
               \/ hist[id] = <<"queued", "downloading", "error">>
               \/ hist[id] = <<"queued", "downloading", "processing", "error">>
            /\ Status(id) = "completed" =>
                  hist[id] = <<"queued", "downloading", "processing", "completed">>

C8_Witness ==
    \E id \in Jobs :
        /\ ~isPlaylist(Job(id).URL) /\ Job(id).Speed = (7 * One) \div 4
        /\ cnt[id].signals = 0 /\ Status(id) = "completed"
        /\ cnt[id].transforms = 1

\* The command the task waits for has failed.
Failed(id) == run[id] \in {"fail", "killed", "ctxerr"}

\* C9: when the playlist fetch, the retried single-item fetch or the
\* single-item transform has failed and the job is not cancelled, the task's
\* next step sets Status to error and ends the task; an ended task launches
\* no process.
C9_FailureIsError ==
    [][\A id \in JobIds :
          /\ ( /\ exists(id) /\ Failed(id) /\ ~ctxDone[id]
               /\ \/ pc[id] \in {"pl_wait", "retry_wait"}
                  \/ pc[id] = "ff_wait" /\ ~isPlaylist(Job(id).URL)
               /\ pc'[id] # pc[id] )
             => (downloads'[id].Status = "error" /\ pc'[id] = "done" /\ run'[id] = "none")
          /\ pc[id] = "done" =>
                (pc'[id] = "done" /\ run'[id] = "none" /\ cnt'[id] = cnt[id])]_vars

C9_Witness ==
    \E id \in Jobs :
        /\ Status(id) = "error" /\ pc[id] = "done" /\ ~ctxDone[id]
        /\ Job(id).Message.text = "Error: %v" /\ cnt[id].fetches = 2

\* C10: the tool output carried by the message of a job whose Status is
\* error is at most ExcerptLimit bytes long.
C10_DiagnosticBounded ==
    \A id \in Jobs :
        Status(id) = "error" => Job(id).Message.diag <= ExcerptLimit

\* C11: in a playlist job of a speed other than 1.0 that is never cancelled,
\* a failed transform does not end the batch: once the loop is over ffmpeg
\* has been launched for every new file, and the task ends with Status
\* completed.
C11_BatchContinues ==
    \A id \in Jobs :
        ( /\ isPlaylist(Job(id).URL) /\ Job(id).Speed # One /\ cnt[id].signals = 0
          /\ pc[id] \in {"pl_completed", "done"}
          /\ \E k \in 1..Len(hist[id]) : hist[id][k] = "processing" ) =>
            /\ loc[id].i = loc[id].n
            /\ cnt[id].transforms = loc[id].n
            /\ pc[id] = "done" => Status(id) = "completed"

C11_Witness ==
    \E id \in Jobs :
        /\ isPlaylist(Job(id).URL) /\ Job(id).Speed # One /\ cnt[id].signals = 0
        /\ pc[id] = "done" /\ Status(id) = "completed"
        /\ loc[id].n = 2 /\ loc[id].successCount = 1 /\ cnt[id].transforms = 2

\* C12: the message of a completed playlist job of a speed other than 1.0
\* gives the number of files whose transform succeeded.
C12_MessageCountsSuccesses ==
    \A id \in Jobs :
        ( /\ isPlaylist(Job(id).URL) /\ Job(id).Speed # One
          /\ pc[id] = "done" /\ Status(id) = "completed" ) =>
            Job(id).Message.a = loc[id].successCount

RECURSIVE Gcd(_, _)
Gcd(a, b) == IF b = 0 THEN a ELSE Gcd(b, a % b)

\* The fraction p times the stage s, in lowest terms.
Times(p, s) ==
    LET g0 == Gcd(s, Prec)
        a == s \div g0
        b == Prec \div g0
        g1 == Gcd(p.num, b)
        g2 == Gcd(a, p.den)
    IN  [num |-> (p.num \div g1) * (a \div g2), den |-> (p.den \div g2) * (b \div g1)]

\* The product of the stages of f, a fraction in lowest terms.
RECURSIVE Product(_)
Product(f) ==
    IF f = <<>> THEN [num |-> 1, den |-> 1]
    ELSE Times(Product(SubSeq(f, 1, Len(f) - 1)), f[Len(f)])

StagesInRange(f) == \A k \in 1..Len(f) : Stage05 <= f[k] /\ f[k] <= Stage20

\* |x - y|
Dist(x, y) == IF x < y THEN y - x ELSE x - y

\* C13, as stated: every stage of the chain computed for a speed m lies in
\* [0.5, 2.0], and the product of the stages equals m.
C13_ProductExact ==
    /\ plan # Off => StagesInRange(plan.filters)
    /\ (plan # Off /\ plan.pc = "done") =>
          LET p == Product(plan.filters)
          IN  p.num * Prec = (plan.speed \div Grain) * p.den

\* C13, amended: every stage of the chain computed for a speed m lies in
\* [0.5, 2.0], and the product of the stages is within 0.001 of m.
C13_ProductWithinTolerance ==
    /\ plan # Off => StagesInRange(plan.filters)
    /\ (plan # Off /\ plan.pc = "done") =>
          LET p == Product(plan.filters)
          IN  Dist(p.num * Prec, (plan.speed \div Grain) * p.den)
                  <= (p.den * Prec) \div 1000

C13_Witness ==
    /\ plan # Off /\ plan.pc = "done" /\ Len(plan.filters) = 4
    /\ plan.filters[1] = Stage20 /\ plan.filters[4] > Prec
    /\ LET p == Product(plan.filters)
       IN  p.num * Prec # (plan.speed \div Grain) * p.den

\* The first n stages of f are all the stage s.
Leading(f, n, s) == \A k \in 1..n : f[k] = s

C15_OriginalUntouched ==
    (ap # Off /\ ap.pc \in {"start", "wait", "returned"} /\ ap.cause \in {"none", "ctx", "tool"}
        /\ ap.proc # "ok") =>
        /\ dir[ap.file] = ap.before /\ ap.before # "absent"
        /\ ap.pc = "returned" => ap.result = "error"

C15_Witness ==
    /\ ap # Off /\ ap.pc = "returned" /\ ap.cause = "tool" /\ ap.proc = "fail"
    /\ ap.result = "error" /\ ap.opened
    /\ dir[ap.file] = "original"

\* C16: when a call of adjustAudioSpeed returns an error because ffmpeg
\* failed or was killed by the cancellation, no temporary file of the call
\* is left in TEMP_DIR, so a scan of the directory finds no such file.
C16_TempDiscarded ==
    (ap # Off /\ ap.pc = "returned" /\ ap.cause = "tool") =>
        /\ dir[TempName(ap.file)] = "absent"
        /\ TempName(ap.file) \notin getMP3Files(dir)

\* Request c has put its job into the registry.
Inserted(c) == sub[c].pc \in {"go", "respond"} \/ (sub[c].pc = "done" /\ sub[c].code = 200)

\* The identifiers of the jobs of the registry.
Entries == {id \in DOMAIN downloads : exists(id)}

\* C17: requests to create jobs that run at the same time get distinct
\* identifiers, and the registry holds one entry per request that has
\* inserted its job: under the request's identifier, with its url and speed,
\* created with Status queued; no entry is lost or overwritten.
C17_ConcurrentCreates ==
    sub # Off =>
        /\ \A c, d \in Clients :
              (c # d /\ sub[c].id # 0 /\ sub[d].id # 0) => sub[c].id # sub[d].id
        /\ \A c \in Clients :
              Inserted(c) =>
                  /\ exists(sub[c].id)
                  /\ downloads[sub[c].id].ID = sub[c].id
                  /\ downloads[sub[c].id].URL = sub[c].url
                  /\ downloads[sub[c].id].Speed = sub[c].speed
                  /\ hist[sub[c].id][1] = "queued"
        /\ Cardinality(Entries) = Cardinality({c \in Clients : Inserted(c)})

C17_Witness ==
    /\ sub # Off
    /\ \A c \in Clients : sub[c].pc = "done" /\ sub[c].code = 200
    /\ Cardinality(Entries) = MaxClients
    /\ \E c, d \in Clients : sub[c].speed # sub[d].speed /\ sub[c].id < sub[d].id /\ c > d

\* C18: the response of listJobsHandler holds one snapshot for every job of
\* the registry, newest first: no snapshot comes before one of a later
\* CreatedAt, whatever the Status of the jobs.
C18_ListNewestFirst ==
    listed # Off =>
        LET jobs == listed.jobs
        IN  /\ Len(jobs) = Cardinality(Entries)
            /\ \A id \in Entries : \E k \in 1..Len(jobs) : jobs[k] = Snapshot(downloads[id])
            /\ \A k, l \in 1..Len(jobs) :
                  k < l => ~(jobs[k].CreatedAt < jobs[l].CreatedAt)

C18_Witness ==
    /\ listed # Off /\ Len(listed.jobs) = 3
    /\ LET jobs == listed.jobs
       IN  /\ jobs[1].CreatedAt = 3 /\ jobs[2].CreatedAt = 2 /\ jobs[3].CreatedAt = 1
           /\ jobs[1].ID = 2 /\ jobs[2].ID = 3 /\ jobs[3].ID = 1
           /\ jobs[1].Status = "completed" /\ jobs[2].Status = "queued"
           /\ jobs[3].Status = "processing"

\* C19: a request that fails validation is answered 400 and changes
\* nothing: the registry, the tasks and the external processes are as they
\* were, and the request has no identifier; no job has an empty URL.
C19_RejectCreatesNothing ==
    [][\A c \in Clients :
          /\ (sub[c].pc = "idle" /\ sub'[c].pc = "done") =>
                /\ sub'[c].code = 400 /\ sub'[c].id = 0
                /\ downloads' = downloads /\ pc' = pc
                /\ run' = run /\ cmdProc' = cmdProc /\ cnt' = cnt
          /\ (sub[c].pc = "idle" /\ sub'[c].pc = "insert") => sub'[c].url # ""
          /\ \A id \in RegIds : exists(id)' => downloads'[id].URL # ""]_vars

C19_Witness ==
    /\ sub # Off
    /\ \E c, d \in Clients :
          /\ sub[c].pc = "done" /\ sub[c].code = 400 /\ sub[c].id = 0
          /\ sub[d].pc = "done" /\ sub[d].code = 200 /\ pc[sub[d].id] # "none"
    /\ Cardinality(Entries) = 1

\* The files of the request the handler has finished with.
Finished == {k \in 1..Len(mv.filenames) : k < mv.i \/ mv.pc = "done"}

\* C20: a file whose rename failed with the cross-device error and whose copy
\* returned no error is, once the handler has finished with it, in the
\* destination with all of its data, synced, absent from the source
\* location, and counted as moved.
C20_CrossDeviceMove ==
    mv # Off =>
        \A k \in Finished \cap mv.exdev \cap mv.copied :
            /\ out[mv.filenames[k]] = [content |-> "data", synced |-> TRUE]
            /\ dir[mv.filenames[k]] = "absent"
            /\ k \in mv.counted

\* C21: a request to move files that got past validation ends with 200 after
\* the handler has been through every file name: each name was counted as
\* moved or has an error entry under its name, the count is the number of
\* files counted; and a file is in the destination when it is counted.
C21_MoveErrorsNotFatal ==
    /\ (mv # Off /\ mv.pc = "done" /\ Len(mv.filenames) > 0) =>
          /\ mv.code = 200
          /\ mv.i = Len(mv.filenames) + 1
          /\ mv.movedCount = Cardinality(mv.counted)
          /\ \A k \in 1..Len(mv.filenames) :
                \/ k \in mv.counted
                \/ \E e \in 1..Len(mv.errors) : mv.errors[e].file = mv.filenames[k]
    /\ (mv # Off /\ mv.pc = "count") => out[filename].content = "data"

\* The first file of a request failed and the second was moved.
C21_Witness ==
    /\ mv # Off /\ mv.pc = "done" /\ Len(mv.filenames) = 2
    /\ mv.counted = {2}
    /\ Len(mv.errors) = 1 /\ mv.errors[1].file = mv.filenames[1]
    /\ mv.filenames[1] # mv.filenames[2]
    /\ out[mv.filenames[2]].content = "data"

\* C22: the registry record of a job B changes only in a step of B's own task
\* or of a cancel request naming B: no step of another job's task or
\* process, and no cancel request for another job, changes B's status or
\* message (or any other field of its record).
C22_OtherJobsUntouched ==
    [][\A b \in DOMAIN downloads :
          downloads'[b] # downloads[b] =>
              \/ TaskStep(b)
              \/ \E seen \in ProcessRead(b) : cancelJobHandler(b, seen)]_vars

\* Job A has ended with an error while job B went on to complete.
C22_Witness ==
    /\ DOMAIN downloads = PairIds
    /\ Status("A") = "error" /\ pc["A"] = "done"
    /\ Status("B") = "completed"

\* C23: the snapshot get-status returns was read under the read lock: its
\* status and message are the values the job had while the handler held
\* the lock, so no write of the task or of a cancel request made after
\* the lock was released shows in it.
C23_StatusReadUnderLock ==
    (get # Off /\ get.pc = "done" /\ get.code = 200) =>
        /\ get.body.Status = get.locked.Status
        /\ get.body.Message = get.locked.Message

\* The positions of the task in the retry of the single-item fetch.
RetryLabels == {"retry_store_cmd", "retry_start", "retry_wait"}

\* The messages of status error that the single-item fetch gives.
FetchErrors == {"Error: %v", "No MP3 file was created"}

\* C24: yt-dlp is started at most twice for a single-item job and at most
\* once for a playlist job; the task enters the retry only from the return
\* of the primary invocation, and only once; a single-item job gets a
\* fetch error only after the retry; and ffmpeg is started at most once per
\* file.
C24_SingleRetry ==
    /\ [](\A id \in DOMAIN downloads : exists(id) =>
            /\ cnt[id].fetches <= (IF isPlaylist(Job(id).URL) THEN 1 ELSE 2)
            /\ cnt[id].transforms <= (IF isPlaylist(Job(id).URL) THEN loc[id].n ELSE 1)
            /\ pc[id] \in RetryLabels => ~isPlaylist(Job(id).URL)
            /\ pc[id] \in {"retry_store_cmd", "retry_start"} => cnt[id].fetches <= 1
            /\ cnt[id].fetches = 2 => Job(id).cmd = "retry"
            /\ (~isPlaylist(Job(id).URL) /\ Status(id) = "error"
                    /\ Job(id).Message.text \in FetchErrors)
                  => Job(id).cmd = "retry" /\ pc[id] = "done")
    /\ [][\A id \in DOMAIN downloads :
            (pc'[id] \in RetryLabels /\ pc[id] \notin RetryLabels)
                => /\ pc[id] = "dsv_wait" /\ Returned(id)
                   /\ Job(id).cmd = "nil"]_vars

\* The primary fetch and the retry were both started, the retry failed and
\* the job shows the error.
C24_Witness ==
    \E id \in DOMAIN downloads :
        /\ exists(id) /\ cnt[id].fetches = 2
        /\ Status(id) = "error" /\ Job(id).Message.text = "Error: %v"

\* C25: in the loop over the files of a playlist the task looks at the
\* token before each file.  When it finds the token signalled it sets the
\* status cancelled with the message "Cancelled after processing i/n files",
\* i being the number of files the loop has been through, and stops; it goes
\* on to a file only when it found the token not signalled; no ffmpeg process
\* is started for the job once the token is signalled; and a stopped task
\* takes no further step.
C25_CancelBetweenFiles ==
    [][\A id \in DOMAIN downloads :
          /\ (pc[id] = "pl_loop" /\ pc'[id] # "pl_loop"
                  /\ loc[id].i < loc[id].n /\ ctxDone[id])
                => /\ pc'[id] = "done"
                   /\ Status(id)' = "cancelled"
                   /\ Job(id)'.Message =
                         Msg("Cancelled after processing %d/%d files",
                             loc[id].i, loc[id].n, 0)
          /\ (pc[id] = "pl_loop" /\ pc'[id] = "pl_message")
                => ~ctxDone[id] /\ loc[id].i < loc[id].n
          /\ pc'[id] = "pl_message" => pc[id] \in {"pl_loop", "pl_message"}
          /\ ctxDone[id] => cnt'[id].transforms = cnt[id].transforms
          /\ pc[id] = "done" => pc'[id] = "done"]_vars

\* A playlist job cancelled during its first file: the task has stopped at
\* the check before the second, and no second transform was started.
C25_Witness ==
    \E id \in DOMAIN downloads :
        /\ exists(id) /\ pc[id] = "done" /\ Status(id) = "cancelled"
        /\ Job(id).Message = Msg("Cancelled after processing %d/%d files", 1, 2, 0)
        /\ cnt[id].transforms = 1

\* The positions at which the task is blocked on an external process.
WaitLabels == {"dsv_wait", "retry_wait", "pl_wait", "ff_wait"}

\* C26: when a cancel request succeeds while the job's task is blocked on a
\* running process (primary fetch, retry, playlist fetch or transform), the
\* request leaves the process killed, or running with the job's token
\* signalled; and a running process of a job whose token is signalled is
\* always one the context's watcher is about to kill, whether or not its
\* handle was stored in the job.
C26_CancelTerminatesProcess ==
    /\ [][\A id \in DOMAIN downloads :
            (exists(id) /\ run[id] = "running" /\ pc[id] \in WaitLabels
                 /\ Job(id)' # Job(id)
                 /\ Job(id)'.Message = Msg("Job cancelled by user", 0, 0, 0))
               => \/ run'[id] = "killed"
                  \/ run'[id] = "running" /\ ctxDone'[id]]_vars
    /\ [](\A id \in DOMAIN downloads :
            (run[id] = "running" /\ ctxDone[id]) =>
                pc[id] \in WaitLabels /\ ENABLED CtxKill(id))

\* The transform of a job was killed after a cancel request although no
\* handle of it was stored: the handler sent no Kill.
C26_Witness ==
    \E id \in DOMAIN downloads :
        /\ exists(id) /\ pc[id] = "ff_wait" /\ run[id] = "killed"
        /\ Status(id) = "cancelled" /\ cnt[id].signals = 1 /\ cnt[id].kills = 0

\* C27: the process handle of a job is unset whenever the process of the
\* stored command has exited.
C27_HandleCleared ==
    \A id \in DOMAIN downloads :
        (exists(id) /\ cmdProc[id] = "exited") => Job(id).cmd = "nil"

\* C28: a step that removes or replaces a downloaded file is a step of the
\* call of adjustAudioSpeed for that file, taken after ffmpeg has exited
\* with 0; the tool itself writes to the temporary sibling file only, and
\* the original is replaced by nothing but the tool's complete output.
C28_ReplaceOnlyAfterSuccess ==
    [][\A name \in BaseNames :
          dir'[name] # dir[name] =>
              /\ ap.file = name
              /\ ap.proc = "ok"
              /\ ap.pc \in {"remove", "rename"}
              /\ dir'[name] \in {"absent", "processed"}
              /\ dir[TempName(name)] = "processed"]_vars

\* The original has been removed after a successful run of the tool and the
\* temporary file is about to be renamed into its place.
C28_Witness ==
    /\ ap # Off /\ ap.pc = "rename" /\ ap.proc = "ok"
    /\ dir[ap.file] = "absent"
    /\ dir[TempName(ap.file)] = "processed"

\* C29: a job stays in the registry, and no step changes its ID, URL, Speed
\* or CreatedAt from what downloadHandler gave it.
C29_CreationFieldsFixed ==
    [][\A id \in DOMAIN downloads :
          exists(id) =>
              /\ Job(id)'.ID = Job(id).ID
              /\ Job(id)'.URL = Job(id).URL
              /\ Job(id)'.Speed = Job(id).Speed
              /\ Job(id)'.CreatedAt = Job(id).CreatedAt
              /\ Job(id).ID = id /\ Job(id).URL # "" /\ Job(id).Speed # 0]_vars

\* A job that went through its whole task and a cancel request still has the
\* speed and the URL of its request.
C29_Witness ==
    \E id \in DOMAIN downloads :
        /\ exists(id) /\ pc[id] = "done" /\ cnt[id].signals >= 1
        /\ Len(hist[id]) >= 4
        /\ Job(id).Speed = (7 * One) \div 4 /\ Job(id).URL = "playlist?list=p"
        /\ Job(id).CreatedAt = 1

\* C30: the files a job takes for its own (the new files of a playlist's
\* directory diff, the newest file of a single-item job) were all written
\* by that job's fetch: none was written by the other job's fetch or
\* transform.
C30_OwnFilesOnly ==
    wd # Off => \A id \in PairIds : wd.job[id].picked \subseteq {id}

\* C31: when a call of adjustAudioSpeed has returned, with or without an
\* error, its file exists: it is the file as it was when the call was made,
\* or the complete output of the tool.
C31_FileNeverMissing ==
    (ap # Off /\ ap.pc = "returned") =>
        /\ dir[ap.file] \in {ap.before, "processed"}
        /\ dir[ap.file] # "absent"

\* C32: in the response of moveFilesHandler no file name is both counted as
\* moved and reported in errors, and the count of moved files plus the
\* number of error entries is the number of file names of the request.
C32_AccountedOnce ==
    (mv # Off /\ mv.pc = "done" /\ mv.code = 200) =>
        /\ mv.movedCount + Len(mv.errors) = Len(mv.filenames)
        /\ \A k \in mv.counted :
              \A e \in 1..Len(mv.errors) :
                  mv.errors[e].file = mv.filenames[k] =>
                      \E j \in 1..Len(mv.filenames) :
                          j # k /\ j \notin mv.counted /\ mv.filenames[j] = mv.filenames[k]

====
